---- MODULE Spec2Model ----
(***************************************************************************)
(* Model of the design-token resolution engine of color-gen                *)
(* (src/src/design_token.rs): the TokenValue model, resolve_tokens with    *)
(* its alias / reference / object / transform rules, the built-in          *)
(* transform steps and merge_token_sets.                                   *)
(*                                                                         *)
(* Rust Strings are sequences of one-character strings, so that replace,   *)
(* format! and substring tests are computed character by character.        *)
(* f64 numbers are exact rationals <<numerator, denominator>> in lowest    *)
(* terms; the model only builds dyadic rationals of a few bits, on which   *)
(* f64 arithmetic is exact.  An IndexMap is a sequence of                  *)
(* [key, val] entries with unique keys, in insertion order.                *)
(* The recursion of resolve_value / resolve_alias / the pipeline is run    *)
(* with an explicit sequence of frames, one step per call or return.       *)
(***************************************************************************)
EXTENDS FiniteSets, Integers, Sequences, TLC

VARIABLES stepInput, stepCalled, stepOutput,
          tokens, resolved, stack, frames, ret, idx, pc, result, pass,
          base, overrides, merged,
          first, firstResolved,
          keyPath, keyOpts, cssKey,
          selector, prefix, flat, sheet

vars == <<tokens, resolved, stack, frames, ret, idx, pc, result, pass,
          base, overrides, merged, first, firstResolved,
          keyPath, keyOpts, cssKey, selector, prefix, flat, sheet,
          stepInput, stepCalled, stepOutput>>

resolverVarsButPc == <<tokens, resolved, stack, frames, ret, idx, result, pass>>

mergeVars == <<base, overrides, merged>>

\* the result a caller keeps from an earlier call of resolve_tokens, and
\* the output set as that call left it
callerVars == <<first, firstResolved>>

\* a call of make_css_custom_property_key: its arguments and its result
keyVars == <<keyPath, keyOpts, cssKey>>

\* a projection of a resolved set: the arguments of to_css_stylesheet, the
\* map of to_css_custom_properties and the text of to_css_stylesheet
sheetVars == <<selector, prefix, flat, sheet>>

\* a call of one built-in step function: its input, its TransformStep and
\* its Result
stepVars == <<stepInput, stepCalled, stepOutput>>

----------------------------------------------------------------------------
(* Strings *)

\* a string literal as the sequence of its characters
Chars(s) ==
  [i \in 1..Len(s) |-> SubSeq(s, i, i)]

\* str::replace('.', "-")
RECURSIVE ReplaceDots(_)
ReplaceDots(s) ==
  IF s = <<>> THEN <<>>
  ELSE Append(ReplaceDots(SubSeq(s, 1, Len(s) - 1)),
              IF s[Len(s)] = "." THEN "-" ELSE s[Len(s)])

\* str::starts_with
StartsWith(s, p) == Len(p) <= Len(s) /\ SubSeq(s, 1, Len(p)) = p

\* str::contains
StrContains(s, p) ==
  \E i \in 0..(Len(s) - Len(p)) : SubSeq(s, i + 1, i + Len(p)) = p

IsWhitespace(ch) == ch \in {" ", "\t", "\n", "\r"}

RECURSIVE TrimStart(_)
TrimStart(s) ==
  IF s # <<>> /\ IsWhitespace(Head(s)) THEN TrimStart(Tail(s)) ELSE s

----------------------------------------------------------------------------
(* f64 as exact rationals *)

Abs(n) == IF n < 0 THEN -n ELSE n

RECURSIVE GCD(_, _)
GCD(a, b) == IF b = 0 THEN a ELSE GCD(b, a % b)

Rat(n, d) ==
  LET g == GCD(Abs(n), Abs(d))
      s == IF d < 0 THEN -1 ELSE 1
  IN  <<(s * n) \div g, (s * d) \div g>>

Whole(n) == <<n, 1>>

RMul(x, y) == Rat(x[1] * y[1], x[2] * y[2])

RAdd(x, y) == Rat(x[1] * y[2] + y[1] * x[2], x[2] * y[2])

RSub(x, y) == Rat(x[1] * y[2] - y[1] * x[2], x[2] * y[2])

RDiv(x, y) == Rat(x[1] * y[2], x[2] * y[1])

RECURSIVE NatDigits(_)
NatDigits(n) ==
  LET d == <<SubSeq("0123456789", (n % 10) + 1, (n % 10) + 1)>>
  IN  IF n < 10 THEN d ELSE NatDigits(n \div 10) \o d

RECURSIVE FracDigits(_, _)
FracDigits(r, d) ==
  IF r = 0 THEN <<>>
  ELSE NatDigits((r * 10) \div d) \o FracDigits((r * 10) % d, d)

\* fmt_num: "{:.0}" when the fractional part is zero, else f64::to_string
\* (the shortest decimal, which for a dyadic rational of few bits is its
\* exact terminating expansion)
FmtNum(x) ==
  LET n == Abs(x[1])
      sign == IF x[1] < 0 THEN <<"-">> ELSE <<>>
  IN  IF x[2] = 1 THEN sign \o NatDigits(n)
      ELSE sign \o NatDigits(n \div x[2]) \o <<".">> \o FracDigits(n % x[2], x[2])

----------------------------------------------------------------------------
(* TokenValue, Token, TransformStep *)

String(s) == [kind |-> "String", s |-> s]

Number(n) == [kind |-> "Number", n |-> n]

Bool(b) == [kind |-> "Bool", v |-> b]

Object(m) == [kind |-> "Object", members |-> m]

Alias(p) == [kind |-> "Alias", path |-> p]

Reference(p) == [kind |-> "Reference", path |-> p]

Color(s) == [kind |-> "Color", s |-> s]

Dimension(v, u) == [kind |-> "Dimension", value |-> v, unit |-> u]

Transform(steps) == [kind |-> "Transform", steps |-> steps]

Null == [kind |-> "Null"]

TransformStep(type, args) == [type |-> type, args |-> args]

\* Option<T>: None is <<>>, Some(x) is <<x>>
None == <<>>

Some(x) == <<x>>

Token(name, value, comment) == [name |-> name, value |-> value, comment |-> comment]

----------------------------------------------------------------------------
(* IndexMap *)

Entry(k, v) == [key |-> k, val |-> v]

RECURSIVE Keys(_)
Keys(m) ==
  IF m = <<>> THEN <<>> ELSE Append(Keys(SubSeq(m, 1, Len(m) - 1)), m[Len(m)].key)

ContainsKey(m, k) == \E i \in 1..Len(m) : m[i].key = k

Get(m, k) == m[CHOOSE i \in 1..Len(m) : m[i].key = k].val

\* an insert that moves an existing key to the end
InsertAtEnd(m, k, v) ==
  Append(SelectSeq(m, LAMBDA e : e.key # k), Entry(k, v))

\* IndexMap::insert: an existing key keeps its position and takes the new
\* value, a new key goes to the end
Insert(m, k, v) ==
  IF ContainsKey(m, k)
  THEN LET i == CHOOSE j \in 1..Len(m) : m[j].key = k
       IN  [m EXCEPT ![i] = Entry(k, v)]
  ELSE Append(m, Entry(k, v))

----------------------------------------------------------------------------
(* ResolveError and Result *)

CycleDetected(msg) == [kind |-> "CycleDetected", msg |-> msg]

TokenNotFound(msg) == [kind |-> "TokenNotFound", msg |-> msg]

InvalidTransform(msg) == [kind |-> "InvalidTransform", msg |-> msg]

TransformFailed(msg) == [kind |-> "TransformFailed", msg |-> msg]

Ok(v) == [kind |-> "Ok", val |-> v]

Err(e) == [kind |-> "Err", err |-> e]

----------------------------------------------------------------------------
(* Built-in transform steps.  input is an Option<TokenValue>. *)

\* is_css_calcable_string
IsCssCalcableString(s) ==
  LET trimmed == TrimStart(s)
  IN  StartsWith(trimmed, Chars("var(")) \/ StartsWith(trimmed, Chars("calc("))

\* css_calc: format!("calc({} {} {})", lhs, op, rhs)
CssCalc(lhs, op, rhs) ==
  Chars("calc(") \o lhs \o <<" ">> \o op \o <<" ">> \o rhs \o <<")">>

ArgIs(step, k) == Len(step.args) >= 1 /\ step.args[1].kind = k

\* multiply that loses the unit of a Dimension
BuiltinMultiplyNoUnit(input, step) ==
  IF ~ArgIs(step, "Number")
  THEN Err(InvalidTransform(Chars("multiply expects number")))
  ELSE LET factor == step.args[1].n
           failed == Err(TransformFailed(Chars("multiply expects number/dimension/string input")))
       IN  IF input = None THEN failed
           ELSE LET in == input[1]
                IN  CASE in.kind = "Number" -> Ok(Number(RMul(in.n, factor)))
                      [] in.kind = "Dimension" -> Ok(Number(RMul(in.value, factor)))
                      [] in.kind = "String" -> Ok(String(CssCalc(in.s, <<"*">>, FmtNum(factor))))
                      [] OTHER -> failed

BuiltinMultiply(input, step) ==
  IF ~ArgIs(step, "Number")
  THEN Err(InvalidTransform(Chars("multiply expects number")))
  ELSE LET factor == step.args[1].n
           failed == Err(TransformFailed(Chars("multiply expects number/dimension/string input")))
       IN  IF input = None THEN failed
           ELSE LET in == input[1]
                IN  CASE in.kind = "Number" -> Ok(Number(RMul(in.n, factor)))
                      [] in.kind = "Dimension" -> Ok(Dimension(RMul(in.value, factor), in.unit))
                      [] in.kind = "String" -> Ok(String(CssCalc(in.s, <<"*">>, FmtNum(factor))))
                      [] OTHER -> failed

\* the right-hand side of the calc() string built by add and subtract
CalcRhs(arg) ==
  IF arg.kind = "Dimension" THEN FmtNum(arg.value) \o arg.unit ELSE FmtNum(arg.n)

ArgAmount(arg) == IF arg.kind = "Dimension" THEN arg.value ELSE arg.n

\* an add that does not compare the units
BuiltinAddAnyUnit(input, step) ==
  IF ~(ArgIs(step, "Number") \/ ArgIs(step, "Dimension"))
  THEN Err(InvalidTransform(Chars("add expects number or dimension")))
  ELSE LET arg == step.args[1]
           add_val == ArgAmount(arg)
           failed == Err(TransformFailed(Chars("add expects number/dimension/string input")))
       IN  IF input = None THEN failed
           ELSE LET in == input[1]
                IN  CASE in.kind = "Number" -> Ok(Number(RAdd(in.n, add_val)))
                      [] in.kind = "Dimension" ->
                           Ok(Dimension(RAdd(in.value, add_val), in.unit))
                      [] in.kind = "String" -> Ok(String(CssCalc(in.s, <<"+">>, CalcRhs(arg))))
                      [] OTHER -> failed

BuiltinAdd(input, step) ==
  IF ~(ArgIs(step, "Number") \/ ArgIs(step, "Dimension"))
  THEN Err(InvalidTransform(Chars("add expects number or dimension")))
  ELSE LET arg == step.args[1]
           add_val == ArgAmount(arg)
           failed == Err(TransformFailed(Chars("add expects number/dimension/string input")))
       IN  IF input = None THEN failed
           ELSE LET in == input[1]
                IN  CASE in.kind = "Number" -> Ok(Number(RAdd(in.n, add_val)))
                      [] in.kind = "Dimension" ->
                           IF arg.kind = "Dimension" /\ arg.unit # in.unit
                           THEN Err(TransformFailed(Chars("add unit mismatch")))
                           ELSE Ok(Dimension(RAdd(in.value, add_val), in.unit))
                      [] in.kind = "String" -> Ok(String(CssCalc(in.s, <<"+">>, CalcRhs(arg))))
                      [] OTHER -> failed

BuiltinSubtract(input, step) ==
  IF ~(ArgIs(step, "Number") \/ ArgIs(step, "Dimension"))
  THEN Err(InvalidTransform(Chars("subtract expects number or dimension")))
  ELSE LET arg == step.args[1]
           sub_val == ArgAmount(arg)
           failed == Err(TransformFailed(Chars("subtract expects number/dimension/string input")))
       IN  IF input = None THEN failed
           ELSE LET in == input[1]
                IN  CASE in.kind = "Number" -> Ok(Number(RSub(in.n, sub_val)))
                      [] in.kind = "Dimension" ->
                           IF arg.kind = "Dimension" /\ arg.unit # in.unit
                           THEN Err(TransformFailed(Chars("subtract unit mismatch")))
                           ELSE Ok(Dimension(RSub(in.value, sub_val), in.unit))
                      [] in.kind = "String" -> Ok(String(CssCalc(in.s, <<"-">>, CalcRhs(arg))))
                      [] OTHER -> failed

\* divide without the zero check: x / 0.0 is an infinity, <<1, 0>>
BuiltinDivideUnchecked(input, step) ==
  IF ~ArgIs(step, "Number")
  THEN Err(InvalidTransform(Chars("divide expects number")))
  ELSE LET divisor == step.args[1].n
           failed == Err(TransformFailed(Chars("divide expects number/dimension/string input")))
           quot(x) == IF divisor[1] = 0 THEN <<1, 0>> ELSE RDiv(x, divisor)
       IN  IF input = None THEN failed
           ELSE LET in == input[1]
                IN  CASE in.kind = "Number" -> Ok(Number(quot(in.n)))
                      [] in.kind = "Dimension" -> Ok(Dimension(quot(in.value), in.unit))
                      [] in.kind = "String" -> Ok(String(CssCalc(in.s, <<"/">>, FmtNum(divisor))))
                      [] OTHER -> failed

BuiltinDivide(input, step) ==
  IF ~ArgIs(step, "Number")
  THEN Err(InvalidTransform(Chars("divide expects number")))
  ELSE LET divisor == step.args[1].n
           failed == Err(TransformFailed(Chars("divide expects number/dimension/string input")))
       IN  IF divisor[1] = 0
           THEN Err(TransformFailed(Chars("divide by zero")))
           ELSE IF input = None THEN failed
           ELSE LET in == input[1]
                IN  CASE in.kind = "Number" -> Ok(Number(RDiv(in.n, divisor)))
                      [] in.kind = "Dimension" -> Ok(Dimension(RDiv(in.value, divisor), in.unit))
                      [] in.kind = "String" -> Ok(String(CssCalc(in.s, <<"/">>, FmtNum(divisor))))
                      [] OTHER -> failed

\* The argument check of builtin_alias: the target path, or None
AliasStepTarget(step) ==
  IF Len(step.args) >= 1 /\ step.args[1].kind = "String" THEN Some(step.args[1].s)
  ELSE IF Len(step.args) >= 1 /\ step.args[1].kind = "Alias" THEN Some(step.args[1].path)
  ELSE None

\* TransformRegistry::default: the names of the built-in steps
Builtins ==
  {Chars("alias"), Chars("multiply"), Chars("add"), Chars("subtract"), Chars("divide")}

\* apply_transform_step that passes its input on when no function has the
\* step's name
ApplyPureStepSkipUnknown(input, step) ==
  CASE step.type = Chars("multiply") -> BuiltinMultiply(input, step)
    [] step.type = Chars("add") -> BuiltinAdd(input, step)
    [] step.type = Chars("subtract") -> BuiltinSubtract(input, step)
    [] step.type = Chars("divide") -> BuiltinDivide(input, step)
    [] OTHER -> Ok(IF input = None THEN Null ELSE input[1])

\* apply_transform_step for every step but alias, which needs the resolver
ApplyPureStep(input, step) ==
  CASE step.type = Chars("multiply") -> BuiltinMultiply(input, step)
    [] step.type = Chars("add") -> BuiltinAdd(input, step)
    [] step.type = Chars("subtract") -> BuiltinSubtract(input, step)
    [] step.type = Chars("divide") -> BuiltinDivide(input, step)
    [] OTHER -> Err(InvalidTransform(Chars("unknown transform: ") \o step.type))

----------------------------------------------------------------------------
(* The resolver: resolve_tokens_with_registry, resolve_value,              *)
(* resolve_alias, apply_transform_pipeline, apply_transform_step.          *)
(*                                                                         *)
(* ret is the hand-over between caller and callee:                         *)
(*   [op |-> "call", name, val]  resolve_value(name, val) is entered       *)
(*   [op |-> "ret", val]         the innermost call returned Ok(val)       *)
(*   [op |-> "err", err]         the innermost call returned Err(err)      *)
(*   [op |-> "step"]             the pipeline on top of frames goes on     *)
(*   [op |-> "none"]             no walk is running                        *)
(* frames holds the suspended callers, innermost last:                     *)
(*   alias frame     resolve_alias waiting for the target's value          *)
(*   object frame    the Object arm waiting for a member's value           *)
(*   pipeline frame  apply_transform_pipeline with its current value       *)
(***************************************************************************)

Call(name, val) == [op |-> "call", name |-> name, val |-> val]

Return(val) == [op |-> "ret", val |-> val]

Fail(err) == [op |-> "err", err |-> err]

Step == [op |-> "step"]

Idle == [op |-> "none"]

AliasFrame(name, target_path) ==
  [kind |-> "alias", name |-> name, target_path |-> target_path]

ObjectFrame(name, map, pos, new_map) ==
  [kind |-> "object", name |-> name, map |-> map, pos |-> pos, new_map |-> new_map]

PipelineFrame(name, steps, pos, current) ==
  [kind |-> "pipeline", name |-> name, steps |-> steps, pos |-> pos, current |-> current]

Top == frames[Len(frames)]

Pop(s) == SubSeq(s, 1, Len(s) - 1)

ReplaceTop(f) == [frames EXCEPT ![Len(frames)] = f]

\* a cycle check that looks at the innermost stack entry only
StackContainsLast(s, target_path) == s # <<>> /\ s[Len(s)] = target_path

\* Vec::contains on the active path stack
StackContains(s, target_path) == \E i \in 1..Len(s) : s[i] = target_path

\* format!("{} (referenced by {})", target_path, name)
NotFoundMessage(target_path, name) ==
  target_path \o Chars(" (referenced by ") \o name \o <<")">>

\* the indirection without the replacement of the dots
CssVarOfKeepDots(target_path) ==
  Chars("var(") \o Chars("--") \o target_path \o <<")">>

\* format!("var({})", format!("--{}", target_path.replace('.', "-")))
CssVarOf(target_path) ==
  Chars("var(") \o Chars("--") \o ReplaceDots(target_path) \o <<")">>

\* a comment lookup that forgets the source set
ResolvedTokenCommentResolvedOnly(res, toks, key) ==
  IF ContainsKey(res, key) THEN Get(res, key).comment ELSE None

\* resolved_token_comment
ResolvedTokenComment(res, toks, key) ==
  IF ContainsKey(res, key) THEN Get(res, key).comment
  ELSE IF ContainsKey(toks, key) THEN Get(toks, key).comment
  ELSE None

\* The map_err of the top-level loop
MapErr(key, e) ==
  IF e.kind = "CycleDetected"
  THEN CycleDetected(key \o Chars(" -> ") \o e.msg)
  ELSE e

\* resolve_alias with a cache hit that hands out the target's source value
ResolveAliasSourceValue(name, target_path) ==
  IF StackContains(stack, target_path)
  THEN /\ ret' = Fail(CycleDetected(target_path))
       /\ UNCHANGED <<stack, frames>>
  ELSE IF ~ContainsKey(tokens, target_path)
  THEN /\ ret' = Fail(TokenNotFound(NotFoundMessage(target_path, name)))
       /\ UNCHANGED <<stack, frames>>
  ELSE IF ContainsKey(resolved, target_path)
  THEN /\ ret' = Return(Get(tokens, target_path).value)
       /\ UNCHANGED <<stack, frames>>
  ELSE /\ stack' = Append(stack, target_path)
       /\ frames' = Append(frames, AliasFrame(name, target_path))
       /\ ret' = Call(target_path, Get(tokens, target_path).value)

\* resolve_alias that breaks a cycle silently with Null
ResolveAliasBreakCycle(name, target_path) ==
  IF StackContains(stack, target_path)
  THEN /\ ret' = Return(Null)
       /\ UNCHANGED <<stack, frames>>
  ELSE IF ~ContainsKey(tokens, target_path)
  THEN /\ ret' = Fail(TokenNotFound(NotFoundMessage(target_path, name)))
       /\ UNCHANGED <<stack, frames>>
  ELSE IF ContainsKey(resolved, target_path)
  THEN /\ ret' = Return(Get(resolved, target_path).value)
       /\ UNCHANGED <<stack, frames>>
  ELSE /\ stack' = Append(stack, target_path)
       /\ frames' = Append(frames, AliasFrame(name, target_path))
       /\ ret' = Call(target_path, Get(tokens, target_path).value)

\* resolve_alias that names the top-level entry as the referrer
ResolveAliasRootReferrer(name, target_path) ==
  IF StackContains(stack, target_path)
  THEN /\ ret' = Fail(CycleDetected(target_path))
       /\ UNCHANGED <<stack, frames>>
  ELSE IF ~ContainsKey(tokens, target_path)
  THEN /\ ret' = Fail(TokenNotFound(NotFoundMessage(target_path, stack[1])))
       /\ UNCHANGED <<stack, frames>>
  ELSE IF ContainsKey(resolved, target_path)
  THEN /\ ret' = Return(Get(resolved, target_path).value)
       /\ UNCHANGED <<stack, frames>>
  ELSE /\ stack' = Append(stack, target_path)
       /\ frames' = Append(frames, AliasFrame(name, target_path))
       /\ ret' = Call(target_path, Get(tokens, target_path).value)

\* resolve_alias up to its recursive call: the cycle check, the lookup in
\* the source set, the cache hit, or the push and the descent
\* resolve_alias without the cache hit: the target is walked again
ResolveAliasNoCache(name, target_path) ==
  IF StackContains(stack, target_path)
  THEN /\ ret' = Fail(CycleDetected(target_path))
       /\ UNCHANGED <<stack, frames>>
  ELSE IF ~ContainsKey(tokens, target_path)
  THEN /\ ret' = Fail(TokenNotFound(NotFoundMessage(target_path, name)))
       /\ UNCHANGED <<stack, frames>>
  ELSE /\ stack' = Append(stack, target_path)
       /\ frames' = Append(frames, AliasFrame(name, target_path))
       /\ ret' = Call(target_path, Get(tokens, target_path).value)

ResolveAlias(name, target_path) ==
  IF StackContains(stack, target_path)
  THEN /\ ret' = Fail(CycleDetected(target_path))
       /\ UNCHANGED <<stack, frames>>
  ELSE IF ~ContainsKey(tokens, target_path)
  THEN /\ ret' = Fail(TokenNotFound(NotFoundMessage(target_path, name)))
       /\ UNCHANGED <<stack, frames>>
  ELSE IF ContainsKey(resolved, target_path)
  THEN /\ ret' = Return(Get(resolved, target_path).value)
       /\ UNCHANGED <<stack, frames>>
  ELSE /\ stack' = Append(stack, target_path)
       /\ frames' = Append(frames, AliasFrame(name, target_path))
       /\ ret' = Call(target_path, Get(tokens, target_path).value)

\* for (key, token) in tokens.iter(): an entry already in resolved is skipped
LoopSkip ==
  /\ pc = "loop"
  /\ idx <= Len(tokens)
  /\ ContainsKey(resolved, tokens[idx].key)
  /\ idx' = idx + 1
  /\ UNCHANGED <<tokens, resolved, stack, frames, ret, pc, result, pass, mergeVars, callerVars, keyVars, sheetVars, stepVars>>

\* stack.clear(); stack.push(key); resolve_value(key, &token.value, ...)
LoopEnter ==
  /\ pc = "loop"
  /\ idx <= Len(tokens)
  /\ ~ContainsKey(resolved, tokens[idx].key)
  /\ stack' = <<tokens[idx].key>>
  /\ ret' = Call(tokens[idx].key, tokens[idx].val.value)
  /\ pc' = "walk"
  /\ UNCHANGED <<tokens, resolved, frames, idx, result, pass, mergeVars, callerVars, keyVars, sheetVars, stepVars>>

\* a top-level insert that drops the comment of the source token
LoopInsertNoComment ==
  /\ pc = "walk"
  /\ ret.op = "ret"
  /\ frames = <<>>
  /\ stack' = Pop(stack)
  /\ resolved' = Insert(resolved, tokens[idx].key, Token(tokens[idx].key, ret.val, None))
  /\ idx' = idx + 1
  /\ ret' = Idle
  /\ pc' = "loop"
  /\ UNCHANGED <<tokens, frames, result, pass, mergeVars, callerVars, keyVars, sheetVars, stepVars>>

\* the top-level call returned Ok: stack.pop(); resolved.insert(key, Token)
\* a top-level insert that keeps the name field of the source token
LoopInsertSourceName ==
  /\ pc = "walk"
  /\ ret.op = "ret"
  /\ frames = <<>>
  /\ stack' = Pop(stack)
  /\ resolved' = Insert(resolved, tokens[idx].key,
                        Token(tokens[idx].val.name, ret.val, tokens[idx].val.comment))
  /\ idx' = idx + 1
  /\ ret' = Idle
  /\ pc' = "loop"
  /\ UNCHANGED <<tokens, frames, result, pass, mergeVars, callerVars, keyVars, sheetVars, stepVars>>

LoopInsert ==
  /\ pc = "walk"
  /\ ret.op = "ret"
  /\ frames = <<>>
  /\ stack' = Pop(stack)
  /\ resolved' = Insert(resolved, tokens[idx].key,
                        Token(tokens[idx].key, ret.val, tokens[idx].val.comment))
  /\ idx' = idx + 1
  /\ ret' = Idle
  /\ pc' = "loop"
  /\ UNCHANGED <<tokens, frames, result, pass, mergeVars, callerVars, keyVars, sheetVars, stepVars>>

\* the loop is over: Ok(resolved)
LoopDone ==
  /\ pc = "loop"
  /\ idx > Len(tokens)
  /\ result' = Ok(resolved)
  /\ pc' = "done"
  /\ UNCHANGED <<tokens, resolved, stack, frames, ret, idx, pass, mergeVars, callerVars, keyVars, sheetVars, stepVars>>

\* an Err that only drops the failing entry: the loop goes on
AbortEntryOnly ==
  /\ pc = "walk"
  /\ ret.op = "err"
  /\ idx' = idx + 1
  /\ frames' = <<>>
  /\ ret' = Idle
  /\ pc' = "loop"
  /\ UNCHANGED <<tokens, resolved, stack, result, pass, mergeVars, callerVars, keyVars, sheetVars, stepVars>>

\* an Err travels through every `?` up to the map_err of the loop, which
\* returns it: no frame runs again, nothing is popped or inserted
Abort ==
  /\ pc = "walk"
  /\ ret.op = "err"
  /\ result' = Err(MapErr(tokens[idx].key, ret.err))
  /\ frames' = <<>>
  /\ ret' = Idle
  /\ pc' = "done"
  /\ UNCHANGED <<tokens, resolved, stack, idx, pass, mergeVars, callerVars, keyVars, sheetVars, stepVars>>

\* resolve_value whose last arm also takes the Objects: an Object may be
\* cloned with its members as they are
ResolveValueOtherOrObject ==
  /\ pc = "walk"
  /\ ret.op = "call"
  /\ ret.val.kind \notin {"Transform", "Reference", "Alias"}
  /\ ret' = Return(ret.val)
  /\ UNCHANGED <<tokens, resolved, stack, frames, idx, pc, result, pass, mergeVars, callerVars, keyVars, sheetVars, stepVars>>

\* resolve_value, arm `other => Ok(other.clone())`
ResolveValueOther ==
  /\ pc = "walk"
  /\ ret.op = "call"
  /\ ret.val.kind \notin {"Transform", "Reference", "Alias", "Object"}
  /\ ret' = Return(ret.val)
  /\ UNCHANGED <<tokens, resolved, stack, frames, idx, pc, result, pass, mergeVars, callerVars, keyVars, sheetVars, stepVars>>

\* resolve_value, arm TokenValue::Reference
\* a Reference arm that resolves its target as the Alias arm does
ResolveValueReferenceWalks ==
  /\ pc = "walk"
  /\ ret.op = "call"
  /\ ret.val.kind = "Reference"
  /\ ResolveAlias(ret.name, ret.val.path)
  /\ UNCHANGED <<tokens, resolved, idx, pc, result, pass, mergeVars, callerVars, keyVars, sheetVars, stepVars>>

ResolveValueReference ==
  /\ pc = "walk"
  /\ ret.op = "call"
  /\ ret.val.kind = "Reference"
  /\ ret' = IF ~ContainsKey(tokens, ret.val.path)
            THEN Fail(TokenNotFound(NotFoundMessage(ret.val.path, ret.name)))
            ELSE Return(String(CssVarOf(ret.val.path)))
  /\ UNCHANGED <<tokens, resolved, stack, frames, idx, pc, result, pass, mergeVars, callerVars, keyVars, sheetVars, stepVars>>

\* resolve_value, arm TokenValue::Alias
ResolveValueAlias ==
  /\ pc = "walk"
  /\ ret.op = "call"
  /\ ret.val.kind = "Alias"
  /\ ResolveAlias(ret.name, ret.val.path)
  /\ UNCHANGED <<tokens, resolved, idx, pc, result, pass, mergeVars, callerVars, keyVars, sheetVars, stepVars>>

\* a resolve_alias that stores the value under the name of the token that
\* asked for it
ResolveAliasReturnUnderReferrer ==
  /\ pc = "walk"
  /\ ret.op = "ret"
  /\ frames # <<>>
  /\ Top.kind = "alias"
  /\ stack' = Pop(stack)
  /\ resolved' = Insert(resolved, Top.name,
                        Token(Top.name, ret.val,
                              ResolvedTokenComment(resolved, tokens, Top.name)))
  /\ frames' = Pop(frames)
  /\ UNCHANGED <<tokens, ret, idx, pc, result, pass, mergeVars, callerVars, keyVars, sheetVars, stepVars>>

\* a resolve_alias that leaves the target on the stack
ResolveAliasReturnNoPop ==
  /\ pc = "walk"
  /\ ret.op = "ret"
  /\ frames # <<>>
  /\ Top.kind = "alias"
  /\ resolved' = Insert(resolved, Top.target_path,
                        Token(Top.target_path, ret.val,
                              ResolvedTokenComment(resolved, tokens, Top.target_path)))
  /\ frames' = Pop(frames)
  /\ UNCHANGED <<tokens, stack, ret, idx, pc, result, pass, mergeVars, callerVars, keyVars, sheetVars, stepVars>>

\* a resolve_alias that returns the target's value without storing the
\* target
ResolveAliasReturnNoInsert ==
  /\ pc = "walk"
  /\ ret.op = "ret"
  /\ frames # <<>>
  /\ Top.kind = "alias"
  /\ stack' = Pop(stack)
  /\ frames' = Pop(frames)
  /\ UNCHANGED <<tokens, resolved, ret, idx, pc, result, pass, mergeVars, callerVars, keyVars, sheetVars, stepVars>>

\* resolve_alias after its recursive call returned Ok: stack.pop(), the
\* target is stored under its own key, the value goes to the caller
ResolveAliasReturn ==
  /\ pc = "walk"
  /\ ret.op = "ret"
  /\ frames # <<>>
  /\ Top.kind = "alias"
  /\ stack' = Pop(stack)
  /\ resolved' = Insert(resolved, Top.target_path,
                        Token(Top.target_path, ret.val,
                              ResolvedTokenComment(resolved, tokens, Top.target_path)))
  /\ frames' = Pop(frames)
  /\ UNCHANGED <<tokens, ret, idx, pc, result, pass, mergeVars, callerVars, keyVars, sheetVars, stepVars>>

\* an Object arm that clones the Object without walking its members
ResolveValueObjectShallow ==
  /\ pc = "walk"
  /\ ret.op = "call"
  /\ ret.val.kind = "Object"
  /\ ret' = Return(ret.val)
  /\ UNCHANGED <<tokens, resolved, stack, frames, idx, pc, result, pass, mergeVars, callerVars, keyVars, sheetVars, stepVars>>

\* resolve_value, arm TokenValue::Object: the loop over the members starts
ResolveValueObject ==
  /\ pc = "walk"
  /\ ret.op = "call"
  /\ ret.val.kind = "Object"
  /\ IF ret.val.members = <<>>
     THEN /\ ret' = Return(Object(<<>>))
          /\ UNCHANGED frames
     ELSE /\ frames' = Append(frames, ObjectFrame(ret.name, ret.val.members, 1, <<>>))
          /\ ret' = Call(ret.name, ret.val.members[1].val)
  /\ UNCHANGED <<tokens, resolved, stack, idx, pc, result, pass, mergeVars, callerVars, keyVars, sheetVars, stepVars>>

\* a member resolved: new_map.insert(k, rv), then the next member or
\* Ok(TokenValue::Object(new_map))
ResolveValueObjectReturn ==
  /\ pc = "walk"
  /\ ret.op = "ret"
  /\ frames # <<>>
  /\ Top.kind = "object"
  /\ LET f == Top
         new_map == Insert(f.new_map, f.map[f.pos].key, ret.val)
     IN  IF f.pos < Len(f.map)
         THEN /\ frames' = ReplaceTop(ObjectFrame(f.name, f.map, f.pos + 1, new_map))
              /\ ret' = Call(f.name, f.map[f.pos + 1].val)
         ELSE /\ frames' = Pop(frames)
              /\ ret' = Return(Object(new_map))
  /\ UNCHANGED <<tokens, resolved, stack, idx, pc, result, pass, mergeVars, callerVars, keyVars, sheetVars, stepVars>>

\* resolve_value, arm TokenValue::Transform: apply_transform_pipeline starts
\* with current = None
ApplyTransformPipeline ==
  /\ pc = "walk"
  /\ ret.op = "call"
  /\ ret.val.kind = "Transform"
  /\ frames' = Append(frames, PipelineFrame(ret.name, ret.val.steps, 1, None))
  /\ ret' = Step
  /\ UNCHANGED <<tokens, resolved, stack, idx, pc, result, pass, mergeVars, callerVars, keyVars, sheetVars, stepVars>>

\* an alias step that hands out the target's source value without
\* resolve_alias
ApplyTransformStepAliasFromSource ==
  /\ pc = "walk"
  /\ ret.op = "step"
  /\ Top.pos <= Len(Top.steps)
  /\ LET step == Top.steps[Top.pos]
     IN  IF step.type = Chars("alias")
         THEN /\ ret' = IF AliasStepTarget(step) = None
                        THEN Fail(InvalidTransform(Chars("alias requires string arg")))
                        ELSE IF ~ContainsKey(tokens, AliasStepTarget(step)[1])
                        THEN Fail(TokenNotFound(NotFoundMessage(AliasStepTarget(step)[1],
                                                                Top.name)))
                        ELSE Return(Get(tokens, AliasStepTarget(step)[1]).value)
              /\ UNCHANGED <<stack, frames>>
         ELSE /\ ret' = LET r == ApplyPureStep(Top.current, step)
                        IN  IF r.kind = "Ok" THEN Return(r.val) ELSE Fail(r.err)
              /\ UNCHANGED <<stack, frames>>
  /\ UNCHANGED <<tokens, resolved, idx, pc, result, pass, mergeVars, callerVars, keyVars, sheetVars, stepVars>>

\* apply_transform_step on the next step of the pipeline
ApplyTransformStep ==
  /\ pc = "walk"
  /\ ret.op = "step"
  /\ Top.pos <= Len(Top.steps)
  /\ LET step == Top.steps[Top.pos]
     IN  IF step.type = Chars("alias")
         THEN IF AliasStepTarget(step) = None
              THEN /\ ret' = Fail(InvalidTransform(Chars("alias requires string arg")))
                   /\ UNCHANGED <<stack, frames>>
              ELSE ResolveAlias(Top.name, AliasStepTarget(step)[1])
         ELSE /\ ret' = LET r == ApplyPureStep(Top.current, step)
                        IN  IF r.kind = "Ok" THEN Return(r.val) ELSE Fail(r.err)
              /\ UNCHANGED <<stack, frames>>
  /\ UNCHANGED <<tokens, resolved, idx, pc, result, pass, mergeVars, callerVars, keyVars, sheetVars, stepVars>>

\* a pipeline whose later steps go on receiving the first step's output
ApplyTransformPipelineNextKeepFirst ==
  /\ pc = "walk"
  /\ ret.op = "ret"
  /\ frames # <<>>
  /\ Top.kind = "pipeline"
  /\ frames' = ReplaceTop(PipelineFrame(Top.name, Top.steps, Top.pos + 1,
                                        IF Top.current = None THEN Some(ret.val)
                                        ELSE Top.current))
  /\ ret' = Step
  /\ UNCHANGED <<tokens, resolved, stack, idx, pc, result, pass, mergeVars, callerVars, keyVars, sheetVars, stepVars>>

\* current = Some(apply_transform_step(...)?)
ApplyTransformPipelineNext ==
  /\ pc = "walk"
  /\ ret.op = "ret"
  /\ frames # <<>>
  /\ Top.kind = "pipeline"
  /\ frames' = ReplaceTop(PipelineFrame(Top.name, Top.steps, Top.pos + 1, Some(ret.val)))
  /\ ret' = Step
  /\ UNCHANGED <<tokens, resolved, stack, idx, pc, result, pass, mergeVars, callerVars, keyVars, sheetVars, stepVars>>

\* the steps are used up: Ok(current.unwrap_or(TokenValue::Null))
ApplyTransformPipelineReturn ==
  /\ pc = "walk"
  /\ ret.op = "step"
  /\ Top.pos > Len(Top.steps)
  /\ ret' = Return(IF Top.current = None THEN Null ELSE Top.current[1])
  /\ frames' = Pop(frames)
  /\ UNCHANGED <<tokens, resolved, stack, idx, pc, result, pass, mergeVars, callerVars, keyVars, sheetVars, stepVars>>

\* merge_token_sets: out = base.clone(), then out.insert(k, v) for every
\* entry of overrides in order
RECURSIVE MergeTokenSets(_, _)
MergeTokenSets(b, o) ==
  IF o = <<>> THEN b
  ELSE LET last == o[Len(o)]
       IN  Insert(MergeTokenSets(b, Pop(o)), last.key, last.val)

\* a caller resolves the set that resolve_tokens returned
Reresolve ==
  /\ pc = "done"
  /\ pass = 1
  /\ result.kind = "Ok"
  /\ tokens' = result.val
  /\ resolved' = <<>>
  /\ stack' = <<>>
  /\ idx' = 1
  /\ pc' = "loop"
  /\ result' = Idle
  /\ pass' = 2
  /\ UNCHANGED <<frames, ret, mergeVars, callerVars, keyVars, sheetVars, stepVars>>

----------------------------------------------------------------------------
(* The output identifier: make_css_custom_property_key, normalize_path and *)
(* normalize_token of src/_src/design_token/css_var.rs                     *)

AsciiUpper == Chars("ABCDEFGHIJKLMNOPQRSTUVWXYZ")

AsciiLower == Chars("abcdefghijklmnopqrstuvwxyz")

AsciiDigits == Chars("0123456789")

InSeq(ch, s) == \E i \in 1..Len(s) : s[i] = ch

IsAsciiUppercase(ch) == InSeq(ch, AsciiUpper)

IsAsciiAlphabetic(ch) == InSeq(ch, AsciiUpper) \/ InSeq(ch, AsciiLower)

IsAsciiDigit(ch) == InSeq(ch, AsciiDigits)

IsAsciiAlphanumeric(ch) == IsAsciiAlphabetic(ch) \/ IsAsciiDigit(ch)

ToAsciiLowercase(ch) ==
  IF IsAsciiUppercase(ch)
  THEN AsciiLower[CHOOSE i \in 1..Len(AsciiUpper) : AsciiUpper[i] = ch]
  ELSE ch

\* String::ends_with(char)
EndsWithChar(s, ch) == s # <<>> /\ s[Len(s)] = ch

RECURSIVE TrimEnd(_)
TrimEnd(s) ==
  IF s # <<>> /\ IsWhitespace(s[Len(s)]) THEN TrimEnd(SubSeq(s, 1, Len(s) - 1)) ELSE s

\* str::trim
Trim(s) == TrimEnd(TrimStart(s))

\* str::trim_matches(char)
RECURSIVE TrimMatches(_, _)
TrimMatches(s, ch) ==
  IF s # <<>> /\ Head(s) = ch THEN TrimMatches(Tail(s), ch)
  ELSE IF s # <<>> /\ s[Len(s)] = ch THEN TrimMatches(SubSeq(s, 1, Len(s) - 1), ch)
  ELSE s

CssKeyOptions(pre, separator, lowercase) ==
  [prefix |-> pre, separator |-> separator, lowercase |-> lowercase]

\* CssKeyOptions::default
DefaultCssKeyOptions == CssKeyOptions(None, "-", TRUE)

\* normalize_token: out and the two flags after the first n characters of s
RECURSIVE NormalizeTokenLoop(_, _, _, _)
NormalizeTokenLoop(s, n, separator, lowercase) ==
  IF n = 0
  THEN [out |-> <<>>, prev_was_sep |-> FALSE, prev_was_lower_or_digit |-> FALSE]
  ELSE LET st == NormalizeTokenLoop(s, n - 1, separator, lowercase)
           ch == s[n]
       IN  IF IsAsciiAlphanumeric(ch)
           THEN LET boundary == /\ IsAsciiUppercase(ch)
                                /\ st.prev_was_lower_or_digit /\ ~st.prev_was_sep
                                /\ ~EndsWithChar(st.out, separator)
                    out == IF boundary THEN Append(st.out, separator) ELSE st.out
                IN  [out |-> Append(out, IF lowercase THEN ToAsciiLowercase(ch) ELSE ch),
                     prev_was_sep |-> FALSE,
                     prev_was_lower_or_digit |-> IsAsciiAlphabetic(ch) \/ IsAsciiDigit(ch)]
           ELSE [out |-> IF EndsWithChar(st.out, separator) THEN st.out
                         ELSE Append(st.out, separator),
                 prev_was_sep |-> TRUE,
                 prev_was_lower_or_digit |-> FALSE]

\* normalize_token
\* normalize_token without the final trim_matches(separator)
NormalizeTokenUntrimmed(s, separator, lowercase) ==
  NormalizeTokenLoop(s, Len(s), separator, lowercase).out

NormalizeToken(s, separator, lowercase) ==
  TrimMatches(NormalizeTokenLoop(s, Len(s), separator, lowercase).out, separator)

\* the first loop of normalize_path: parts and current after the first n
\* characters of s
RECURSIVE SplitPath(_, _)
SplitPath(s, n) ==
  IF n = 0 THEN [parts |-> <<>>, current |-> <<>>]
  ELSE LET st == SplitPath(s, n - 1)
           ch == s[n]
       IN  IF ch = "." \/ ch = "/" \/ IsWhitespace(ch)
           THEN IF st.current # <<>>
                THEN [parts |-> Append(st.parts, st.current), current |-> <<>>]
                ELSE st
           ELSE [parts |-> st.parts, current |-> Append(st.current, ch)]

PathParts(s) ==
  LET st == SplitPath(s, Len(s))
  IN  IF st.current # <<>> THEN Append(st.parts, st.current) ELSE st.parts

\* the second loop of normalize_path: out after the first n parts
RECURSIVE JoinTokens(_, _, _, _)
JoinTokens(parts, n, separator, lowercase) ==
  IF n = 0 THEN <<>>
  ELSE LET out == JoinTokens(parts, n - 1, separator, lowercase)
           token == NormalizeToken(parts[n], separator, lowercase)
       IN  IF token = <<>> THEN out
           ELSE (IF n - 1 > 0 /\ out # <<>> THEN Append(out, separator) ELSE out) \o token

\* normalize_path
NormalizePath(s, separator, lowercase) ==
  LET parts == PathParts(s)
  IN  JoinTokens(parts, Len(parts), separator, lowercase)

\* make_css_custom_property_key
MakeCssCustomPropertyKey(path, opts) ==
  LET norm_prefix == IF opts.prefix = None THEN <<>>
                     ELSE NormalizeToken(opts.prefix[1], opts.separator, opts.lowercase)
      trimmed == TrimStart(path)
      body == IF StartsWith(trimmed, <<"-", "-">>) THEN SubSeq(trimmed, 3, Len(trimmed))
              ELSE Trim(path)
      norm_body == NormalizePath(body, opts.separator, opts.lowercase)
      out == IF norm_body = <<>> THEN norm_prefix
             ELSE (IF norm_prefix # <<>> THEN Append(norm_prefix, opts.separator)
                   ELSE norm_prefix) \o norm_body
  IN  <<"-", "-">> \o out

\* css_var
CssVar(path, opts) == Chars("var(") \o MakeCssCustomPropertyKey(path, opts) \o <<")">>

----------------------------------------------------------------------------
(* The inputs *)

MaxTokens == 3

MaxSteps == 2

MaxMerge == 2

KeyList == <<Chars("a"), Chars("b"), Chars("a.b"), Chars("c")>>

\* a path that is never a key of a source set
Missing == Chars("z")

Min(a, b) == IF a < b THEN a ELSE b

FirstKeys(n) == {KeyList[i] : i \in 1..Min(n, Len(KeyList))}

\* the sequences of n distinct keys of K
KeyOrders(K, n) ==
  {ks \in [1..n -> K] : \A i, j \in 1..n : i # j => ks[i] # ks[j]}

\* the token set with the keys ks and the values vs, in this order, with no
\* comment and the key as name
RECURSIVE TokenSetOf(_, _, _)
TokenSetOf(ks, vs, n) ==
  IF n = 0 THEN <<>>
  ELSE Append(TokenSetOf(ks, vs, n - 1), Entry(ks[n], Token(ks[n], vs[n], None)))

\* the sequence of the first n values of the function p
RECURSIVE SeqOf(_, _)
SeqOf(p, n) == IF n = 0 THEN <<>> ELSE Append(SeqOf(p, n - 1), p[n])

\* alias graphs: literals and aliases over up to MaxTokens keys
GraphKeys == FirstKeys(MaxTokens)

GraphValues == {String(Chars("x"))} \cup {Alias(p) : p \in GraphKeys \cup {Missing}}

\* every variant of TokenValue over two keys
MixedKeys == {Chars("a"), Chars("a.b")}

Member(k, v) == Entry(Chars(k), v)

MixedValues ==
  { String(Chars("x")), String(Chars("var(--a)")), Color(Chars("#fff")),
    Number(Whole(3)), Bool(TRUE), Null, Dimension(Whole(4), Chars("px")),
    Reference(Chars("a")), Reference(Chars("a.b")), Reference(Missing),
    Alias(Chars("a")), Alias(Chars("a.b")),
    Object(<<>>),
    Object(<<Member("m", Alias(Chars("a")))>>),
    Object(<<Member("m", String(Chars("x"))), Member("n", Alias(Chars("a.b")))>>),
    Object(<<Member("m", Alias(Chars("a.b"))), Member("n", Alias(Chars("a.b")))>>),
    Object(<<Member("m", Object(<<Member("n", Alias(Chars("a")))>>))>>),
    Object(<<Member("m", Reference(Chars("a"))), Member("n", Reference(Missing))>>),
    Object(<<Member("m", Transform(<<TransformStep(Chars("divide"), <<Number(Whole(0))>>)>>))>>),
    Transform(<<>>),
    Transform(<<TransformStep(Chars("alias"), <<String(Chars("a"))>>),
                TransformStep(Chars("multiply"), <<Number(Whole(2))>>)>>) }

\* the steps of the pipelines
StepSet ==
  { TransformStep(Chars("alias"), <<String(Chars("a"))>>),
    TransformStep(Chars("alias"), <<Alias(Chars("b"))>>),
    TransformStep(Chars("alias"), <<String(Missing)>>),
    TransformStep(Chars("alias"), <<>>),
    TransformStep(Chars("multiply"), <<Number(Whole(2))>>),
    TransformStep(Chars("multiply"), <<String(Chars("2"))>>),
    TransformStep(Chars("add"), <<Dimension(Whole(2), Chars("px"))>>),
    TransformStep(Chars("add"), <<Dimension(Whole(2), Chars("rem"))>>),
    TransformStep(Chars("subtract"), <<Number(Whole(5))>>),
    TransformStep(Chars("divide"), <<Number(Whole(8))>>),
    TransformStep(Chars("divide"), <<Number(Whole(0))>>),
    TransformStep(Chars("scale"), <<Number(Whole(2))>>) }

\* the values that the pipelines fetch with an alias step
PipelineBases ==
  { Number(Whole(3)), Dimension(Whole(4), Chars("px")), String(Chars("x")),
    String(Chars(" var(--x)")), Bool(TRUE), Null }

\* comments and names: a token whose comment is absent or present and
\* whose name field is the key or not
CommentTokens(k) ==
  { Entry(k, Token(n, v, c)) :
      n \in {k, Chars("n")},
      v \in {String(Chars("x")), Alias(Chars("a")), Alias(Chars("b"))},
      c \in {None, Some(Chars("c1")), Some(Chars("c2"))} }

\* the source set of a call of resolve_tokens is one of: an alias graph, a
\* set of mixed values, a literal under "a" with a pipeline under "b", two
\* commented tokens
IsSourceSet(source) ==
  \/ \E n \in 1..Min(MaxTokens, Len(KeyList)) :
       \E ks \in KeyOrders(GraphKeys, n), vs \in [1..n -> GraphValues] :
         source = TokenSetOf(ks, vs, n)
  \/ \E n \in 1..2 :
       \E ks \in KeyOrders(MixedKeys, n), vs \in [1..n -> MixedValues] :
         source = TokenSetOf(ks, vs, n)
  \/ \E v \in PipelineBases, n \in 0..MaxSteps, ks \in KeyOrders({Chars("a"), Chars("b")}, 2) :
       \E p \in [1..n -> StepSet] :
         source = TokenSetOf(ks, [k \in 1..2 |-> IF ks[k] = Chars("a") THEN v
                                                 ELSE Transform(SeqOf(p, n))], 2)
  \/ \E x \in CommentTokens(Chars("a")), y \in CommentTokens(Chars("b")) :
       source \in {<<x, y>>, <<y, x>>}

\* the operands of merge: up to MaxMerge entries each
MergeKeys == FirstKeys(MaxMerge + 1)

IsMergeOperand(m, V) ==
  \E n \in 0..MaxMerge :
    \E ks \in KeyOrders(MergeKeys, n), vs \in [1..n -> V] : m = TokenSetOf(ks, vs, n)

----------------------------------------------------------------------------
(* The entry points *)

\* a caller calls resolve_tokens on a source set: resolved and stack are new
ResolveTokens ==
  /\ pc = "idle"
  /\ IsSourceSet(tokens')
  /\ resolved' = <<>>
  /\ stack' = <<>>
  /\ idx' = 1
  /\ pc' = "loop"
  /\ UNCHANGED <<frames, ret, result, pass, mergeVars, callerVars, keyVars, sheetVars, stepVars>>

\* a caller calls merge_token_sets on two token sets
Merge ==
  /\ pc = "idle"
  /\ IsMergeOperand(base', {Number(Whole(1)), Number(Whole(2))})
  /\ IsMergeOperand(overrides', {Number(Whole(2)), Number(Whole(3))})
  /\ merged' = MergeTokenSets(base', overrides')
  /\ pc' = "merged"
  /\ UNCHANGED <<resolverVarsButPc, callerVars, keyVars, sheetVars, stepVars>>

----------------------------------------------------------------------------
(* Specifications *)

Init ==
  /\ tokens = <<>>
  /\ resolved = <<>>
  /\ stack = <<>>
  /\ frames = <<>>
  /\ ret = Idle
  /\ idx = 1
  /\ pc = "idle"
  /\ result = Idle
  /\ pass = 1
  /\ base = <<>>
  /\ overrides = <<>>
  /\ merged = <<>>
  /\ first = Idle
  /\ firstResolved = <<>>
  /\ keyPath = <<>>
  /\ keyOpts = DefaultCssKeyOptions
  /\ cssKey = <<>>
  /\ selector = <<>>
  /\ prefix = None
  /\ flat = <<>>
  /\ sheet = <<>>
  /\ stepInput = None
  /\ stepCalled = TransformStep(<<>>, <<>>)
  /\ stepOutput = Ok(Null)

Next ==
  \/ ResolveTokens
  \/ Merge
  \/ LoopSkip
  \/ LoopEnter
  \/ LoopInsert
  \/ LoopDone
  \/ Abort
  \/ ResolveValueOther
  \/ ResolveValueReference
  \/ ResolveValueAlias
  \/ ResolveAliasReturn
  \/ ResolveValueObject
  \/ ResolveValueObjectReturn
  \/ ApplyTransformPipeline
  \/ ApplyTransformStep
  \/ ApplyTransformPipelineNext
  \/ ApplyTransformPipelineReturn
  \/ Reresolve

Spec == Init /\ [][Next]_vars

\* the steps of a running call of resolve_tokens
Resolve ==
  \/ LoopSkip
  \/ LoopEnter
  \/ LoopInsert
  \/ LoopDone
  \/ Abort
  \/ ResolveValueOther
  \/ ResolveValueReference
  \/ ResolveValueAlias
  \/ ResolveAliasReturn
  \/ ResolveValueObject
  \/ ResolveValueObjectReturn
  \/ ApplyTransformPipeline
  \/ ApplyTransformStep
  \/ ApplyTransformPipelineNext
  \/ ApplyTransformPipelineReturn

\* resolve_tokens is one synchronous call on one thread: once called, it
\* keeps taking steps until it returns
FairSpec == Spec /\ WF_vars(Resolve)

TypeOK ==
  /\ pc \in {"idle", "loop", "walk", "done", "merged", "key", "key again",
            "projected", "stepped"}
  /\ idx \in 1..(Len(tokens) + 1)
  /\ pass \in {1, 2}

----------------------------------------------------------------------------
(* The same entries in another insertion order *)

\* value and comment of the tokens whose order is changed
OrderBodies ==
  { <<String(Chars("x")), Some(Chars("c1"))>>,
    <<Alias(Chars("a")), None>>,
    <<Alias(Chars("b")), Some(Chars("c2"))>>,
    <<Alias(Chars("a.b")), None>>,
    <<Alias(Missing), None>>,
    <<Object(<<Member("m", Alias(Chars("a"))), Member("n", Reference(Chars("b")))>>), None>>,
    <<Transform(<<TransformStep(Chars("alias"), <<String(Chars("b"))>>),
                  TransformStep(Chars("multiply"), <<Number(Whole(2))>>)>>), None>> }

\* the token set with the first n keys of KeyList, in that order, and the
\* bodies bs
RECURSIVE OrderSetOf(_, _)
OrderSetOf(bs, n) ==
  IF n = 0 THEN <<>>
  ELSE Append(OrderSetOf(bs, n - 1),
              Entry(KeyList[n], Token(KeyList[n], bs[n][1], bs[n][2])))

IsOrderSet(source) ==
  \E n \in 1..Min(MaxTokens, Len(KeyList)) :
    \E bs \in [1..n -> OrderBodies] : source = OrderSetOf(bs, n)

\* the entries of m in the order p
RECURSIVE Permuted(_, _, _)
Permuted(m, p, n) ==
  IF n = 0 THEN <<>> ELSE Append(Permuted(m, p, n - 1), m[p[n]])

\* a caller calls resolve_tokens on a source set whose keys are in the
\* order of KeyList
ResolveTokensInOrder ==
  /\ pc = "idle"
  /\ IsOrderSet(tokens')
  /\ resolved' = <<>>
  /\ stack' = <<>>
  /\ idx' = 1
  /\ pc' = "loop"
  /\ UNCHANGED <<frames, ret, result, pass, mergeVars, callerVars, keyVars, sheetVars, stepVars>>

\* the caller keeps the result and calls resolve_tokens on the same entries
\* inserted in another order
ResolveReordered ==
  /\ pc = "done"
  /\ first = Idle
  /\ \E p \in Permutations(1..Len(tokens)) : tokens' = Permuted(tokens, p, Len(tokens))
  /\ first' = result
  /\ firstResolved' = resolved
  /\ result' = Idle
  /\ resolved' = <<>>
  /\ stack' = <<>>
  /\ idx' = 1
  /\ pc' = "loop"
  /\ UNCHANGED <<frames, ret, pass, mergeVars, keyVars, sheetVars, stepVars>>

OrderNext ==
  \/ ResolveTokensInOrder
  \/ ResolveReordered
  \/ Resolve

OrderSpec == Init /\ [][OrderNext]_vars

----------------------------------------------------------------------------
(* The same entries with alias steps in place of Alias values *)

\* v with every Alias(t), at any depth of Object nesting, replaced by the
\* pipeline of the one step alias(t), its argument a String or an Alias
RECURSIVE AsAliasSteps(_, _)
AsAliasSteps(v, asString) ==
  CASE v.kind = "Alias" ->
         Transform(<<TransformStep(Chars("alias"),
                                   <<IF asString THEN String(v.path) ELSE v>>)>>)
    [] v.kind = "Object" ->
         Object([i \in 1..Len(v.members) |->
                   [key |-> v.members[i].key,
                    val |-> AsAliasSteps(v.members[i].val, asString)]])
    [] OTHER -> v

\* the caller keeps the result and calls resolve_tokens on the same entries
\* with alias steps in place of the Alias values
ResolveWithAliasSteps ==
  /\ pc = "done"
  /\ first = Idle
  /\ \E asString \in BOOLEAN :
       tokens' = [i \in 1..Len(tokens) |->
                    Entry(tokens[i].key,
                          Token(tokens[i].val.name,
                                AsAliasSteps(tokens[i].val.value, asString),
                                tokens[i].val.comment))]
  /\ first' = result
  /\ firstResolved' = resolved
  /\ result' = Idle
  /\ resolved' = <<>>
  /\ stack' = <<>>
  /\ idx' = 1
  /\ pc' = "loop"
  /\ UNCHANGED <<frames, ret, pass, mergeVars, keyVars, sheetVars, stepVars>>

AliasStepNext ==
  \/ ResolveTokensInOrder
  \/ ResolveWithAliasSteps
  \/ Resolve

AliasStepSpec == Init /\ [][AliasStepNext]_vars

----------------------------------------------------------------------------
(* Calls of make_css_custom_property_key *)

MaxPathLen == 4

\* the characters of the paths: lower case, upper case, digit, the
\* delimiters, and the character of the marker, which is not alphanumeric
PathAlphabet == {"a", "B", "1", ".", "/", " ", "-"}

IsPath(path) ==
  \E n \in 0..MaxPathLen : \E p \in [1..n -> PathAlphabet] : path = SeqOf(p, n)

KeyOptionSets ==
  { CssKeyOptions(pre, separator, lowercase) :
      pre \in {None, Some(<<>>), Some(Chars("p")), Some(Chars("P q"))},
      separator \in {"-", "_"},
      lowercase \in BOOLEAN }

\* a caller builds the identifier of a path
MakeKey ==
  /\ pc = "idle"
  /\ IsPath(keyPath')
  /\ keyOpts' \in KeyOptionSets
  /\ cssKey' = MakeCssCustomPropertyKey(keyPath', keyOpts')
  /\ pc' = "key"
  /\ UNCHANGED <<resolverVarsButPc, mergeVars, callerVars, sheetVars, stepVars>>

\* the caller builds the identifier of the identifier it got
MakeKeyAgain ==
  /\ pc = "key"
  /\ keyPath' = cssKey
  /\ cssKey' = MakeCssCustomPropertyKey(cssKey, keyOpts)
  /\ pc' = "key again"
  /\ UNCHANGED <<resolverVarsButPc, mergeVars, callerVars, sheetVars, stepVars, keyOpts>>

KeyNext ==
  \/ MakeKey
  \/ MakeKeyAgain

KeySpec == Init /\ [][KeyNext]_vars

----------------------------------------------------------------------------
(* The projections: token_value_to_string, to_css_custom_properties and    *)
(* to_css_stylesheet                                                       *)

\* serde_json's string: quoted, with the quote and the backslash escaped
RECURSIVE JsonEscape(_)
JsonEscape(s) ==
  IF s = <<>> THEN <<>>
  ELSE LET ch == s[Len(s)]
       IN  JsonEscape(SubSeq(s, 1, Len(s) - 1))
             \o (IF ch = "\"" \/ ch = "\\" THEN <<"\\", ch>> ELSE <<ch>>)

JsonString(s) == <<"\"">> \o JsonEscape(s) \o <<"\"">>

\* serde_json's f64: the shortest decimal, with ".0" for a whole number
JsonNumber(x) == IF x[2] = 1 THEN FmtNum(x) \o <<".", "0">> ELSE FmtNum(x)

\* serde_json::to_string of a TokenValue (#[serde(untagged)])
RECURSIVE ToJson(_)
ToJson(v) ==
  LET RECURSIVE members(_, _)
      members(m, n) ==
        IF n = 0 THEN <<>>
        ELSE members(m, n - 1) \o (IF n > 1 THEN <<",">> ELSE <<>>)
               \o JsonString(m[n].key) \o <<":">> \o ToJson(m[n].val)
      RECURSIVE list(_, _)
      list(a, n) ==
        IF n = 0 THEN <<>>
        ELSE list(a, n - 1) \o (IF n > 1 THEN <<",">> ELSE <<>>) \o ToJson(a[n])
      RECURSIVE steps(_, _)
      steps(a, n) ==
        IF n = 0 THEN <<>>
        ELSE steps(a, n - 1) \o (IF n > 1 THEN <<",">> ELSE <<>>)
               \o Chars("{\"type\":") \o JsonString(a[n].type)
               \o Chars(",\"args\":[") \o list(a[n].args, Len(a[n].args)) \o Chars("]}")
  IN  CASE v.kind \in {"String", "Color"} -> JsonString(v.s)
        [] v.kind \in {"Alias", "Reference"} -> JsonString(v.path)
        [] v.kind = "Number" -> JsonNumber(v.n)
        [] v.kind = "Bool" -> IF v.v THEN Chars("true") ELSE Chars("false")
        [] v.kind = "Object" -> <<"{">> \o members(v.members, Len(v.members)) \o <<"}">>
        [] v.kind = "Dimension" ->
             Chars("{\"value\":") \o JsonNumber(v.value)
               \o Chars(",\"unit\":") \o JsonString(v.unit) \o <<"}">>
        [] v.kind = "Transform" ->
             Chars("{\"steps\":[") \o steps(v.steps, Len(v.steps)) \o Chars("]}")
        [] v.kind = "Null" -> Chars("null")

\* token_value_to_string
TokenValueToString(value) ==
  CASE value.kind = "String" -> value.s
    [] value.kind = "Number" -> FmtNum(value.n)
    [] value.kind = "Bool" -> IF value.v THEN Chars("true") ELSE Chars("false")
    [] value.kind = "Object" -> ToJson(value)
    [] value.kind = "Alias" -> Chars("alias(") \o value.path \o <<")">>
    [] value.kind = "Reference" -> Chars("reference(") \o value.path \o <<")">>
    [] value.kind = "Color" -> value.s
    [] value.kind = "Dimension" -> FmtNum(value.value) \o value.unit
    [] value.kind = "Transform" -> Chars("unresolved-transform")
    [] value.kind = "Null" -> Chars("null")

\* to_css_custom_properties
RECURSIVE ToCssCustomProperties(_)
ToCssCustomProperties(toks) ==
  IF toks = <<>> THEN <<>>
  ELSE LET last == toks[Len(toks)]
       IN  Insert(ToCssCustomProperties(Pop(toks)),
                  <<"-", "-">> \o ReplaceDots(last.key),
                  TokenValueToString(last.val.value))

\* the loop of to_css_stylesheet: one line per token
RECURSIVE StylesheetLines(_, _)
StylesheetLines(toks, pre) ==
  IF toks = <<>> THEN <<>>
  ELSE LET last == toks[Len(toks)]
           var_name == IF pre # None /\ pre[1] # <<>>
                       THEN <<"-", "-">> \o pre[1] \o <<"-">> \o ReplaceDots(last.key)
                       ELSE <<"-", "-">> \o ReplaceDots(last.key)
       IN  StylesheetLines(Pop(toks), pre)
             \o <<" ", " ">> \o var_name \o <<":", " ">>
             \o TokenValueToString(last.val.value) \o <<";", "\n">>

\* to_css_stylesheet
ToCssStylesheet(toks, sel, pre) ==
  sel \o <<" ", "{", "\n">> \o StylesheetLines(toks, pre) \o <<"}">>

\* the keys of the sets that are projected: two of them differ only in
\* '.' against '-'
SheetKeys == {Chars("a"), Chars("a.b"), Chars("a-b")}

SheetValues ==
  { String(Chars("x")), Number(<<3, 2>>), Dimension(Whole(4), Chars("px")),
    Bool(TRUE), Null, Reference(Chars("a")), Alias(Chars("a.b")),
    Transform(<<TransformStep(Chars("alias"), <<String(Chars("a"))>>)>>),
    Object(<<Member("m", Number(Whole(1))), Member("n", Color(Chars("#fff")))>>) }

IsSheetSet(source) ==
  \E n \in 1..Min(MaxTokens, Cardinality(SheetKeys)) :
    \E ks \in KeyOrders(SheetKeys, n), vs \in [1..n -> SheetValues] :
      source = TokenSetOf(ks, vs, n)

Selectors == {Chars(":root"), Chars(".t")}

Prefixes == {None, Some(<<>>), Some(Chars("p"))}

\* a caller calls resolve_tokens on a source set that it will project
ResolveTokensToProject ==
  /\ pc = "idle"
  /\ IsSheetSet(tokens')
  /\ resolved' = <<>>
  /\ stack' = <<>>
  /\ idx' = 1
  /\ pc' = "loop"
  /\ UNCHANGED <<frames, ret, result, pass, mergeVars, callerVars, keyVars, sheetVars, stepVars>>

\* the caller projects the resolved set: to_css_custom_properties and
\* to_css_stylesheet
Project ==
  /\ pc = "done"
  /\ result.kind = "Ok"
  /\ selector' \in Selectors
  /\ prefix' \in Prefixes
  /\ flat' = ToCssCustomProperties(result.val)
  /\ sheet' = ToCssStylesheet(result.val, selector', prefix')
  /\ pc' = "projected"
  /\ UNCHANGED <<resolverVarsButPc, mergeVars, callerVars, keyVars, stepVars>>

ProjectionNext ==
  \/ ResolveTokensToProject
  \/ Resolve
  \/ Project

ProjectionSpec == Init /\ [][ProjectionNext]_vars

----------------------------------------------------------------------------
(* Calls of the built-in step functions *)

\* the inputs of a step: none, Numbers, Dimensions of two units, Strings,
\* values that no arithmetic takes
StepInputs ==
  { None, Some(Number(Whole(3))), Some(Number(<<3, 2>>)),
    Some(Dimension(Whole(4), Chars("px"))), Some(Dimension(<<3, 2>>, Chars("px"))),
    Some(Dimension(Whole(4), Chars("rem"))), Some(Dimension(Whole(4), <<>>)),
    Some(String(Chars("x"))), Some(String(Chars(" var(--x)"))),
    Some(Bool(TRUE)), Some(Null) }

\* the argument lists of a step
StepArgs ==
  { <<>>, <<Number(Whole(2))>>, <<Number(Whole(0))>>, <<Number(<<0 - 5, 2>>)>>,
    <<Dimension(Whole(2), Chars("px"))>>, <<Dimension(Whole(2), Chars("rem"))>>,
    <<Dimension(Whole(2), Chars("PX"))>>, <<Dimension(Whole(2), <<>>)>>,
    <<String(Chars("2"))>>, <<Number(Whole(2)), Dimension(Whole(2), Chars("rem"))>> }

\* builtin_add is called
CallBuiltinAdd ==
  /\ pc = "idle"
  /\ stepInput' \in StepInputs
  /\ \E args \in StepArgs : stepCalled' = TransformStep(Chars("add"), args)
  /\ stepOutput' = BuiltinAdd(stepInput', stepCalled')
  /\ pc' = "stepped"
  /\ UNCHANGED <<resolverVarsButPc, mergeVars, callerVars, keyVars, sheetVars>>

\* builtin_subtract is called
CallBuiltinSubtract ==
  /\ pc = "idle"
  /\ stepInput' \in StepInputs
  /\ \E args \in StepArgs : stepCalled' = TransformStep(Chars("subtract"), args)
  /\ stepOutput' = BuiltinSubtract(stepInput', stepCalled')
  /\ pc' = "stepped"
  /\ UNCHANGED <<resolverVarsButPc, mergeVars, callerVars, keyVars, sheetVars>>

StepNext ==
  \/ CallBuiltinAdd
  \/ CallBuiltinSubtract

StepSpec == Init /\ [][StepNext]_vars

----------------------------------------------------------------------------
(* Vocabulary of the properties *)

Done == pc = "done"

Succeeded == pc = "done" /\ result.kind = "Ok"

Failed == pc = "done" /\ result.kind = "Err"

KeySet(m) == {m[i].key : i \in 1..Len(m)}

Last(s) == s[Len(s)]

\* the paths named by Alias values and alias steps in v, at any depth
RECURSIVE AliasPaths(_)
AliasPaths(v) ==
  CASE v.kind = "Alias" -> {v.path}
    [] v.kind = "Object" -> UNION {AliasPaths(v.members[i].val) : i \in 1..Len(v.members)}
    [] v.kind = "Transform" ->
         {AliasStepTarget(v.steps[i])[1] :
            i \in {j \in 1..Len(v.steps) :
                     v.steps[j].type = Chars("alias") /\ AliasStepTarget(v.steps[j]) # None}}
    [] OTHER -> {}

\* the paths named by Reference values in v, at any depth
RECURSIVE ReferencePaths(_)
ReferencePaths(v) ==
  CASE v.kind = "Reference" -> {v.path}
    [] v.kind = "Object" -> UNION {ReferencePaths(v.members[i].val) : i \in 1..Len(v.members)}
    [] OTHER -> {}

\* v holds a value of one of the kinds, at any depth of Object nesting
RECURSIVE HoldsKind(_, _)
HoldsKind(v, kinds) ==
  \/ v.kind \in kinds
  \/ /\ v.kind = "Object"
     /\ \E i \in 1..Len(v.members) : HoldsKind(v.members[i].val, kinds)

\* the Transform values of v, at any depth of Object nesting
RECURSIVE TransformsOf(_)
TransformsOf(v) ==
  CASE v.kind = "Transform" -> {v}
    [] v.kind = "Object" -> UNION {TransformsOf(v.members[i].val) : i \in 1..Len(v.members)}
    [] OTHER -> {}

AllAliasTargetsExist(toks) ==
  \A i \in 1..Len(toks) : AliasPaths(toks[i].val.value) \subseteq KeySet(toks)

AllReferenceTargetsExist(toks) ==
  \A i \in 1..Len(toks) : ReferencePaths(toks[i].val.value) \subseteq KeySet(toks)

HoldsNo(toks, kinds) ==
  \A i \in 1..Len(toks) : ~HoldsKind(toks[i].val.value, kinds)

\* the key reached from k after n hops along Alias values, or Missing
RECURSIVE Follow(_, _, _)
Follow(toks, k, n) ==
  IF n = 0 THEN k
  ELSE IF ContainsKey(toks, k) /\ Get(toks, k).value.kind = "Alias"
       THEN Follow(toks, Get(toks, k).value.path, n - 1)
       ELSE Missing

\* some token depends on itself through a chain of Alias values
HasAliasCycle(toks) ==
  \E i \in 1..Len(toks) : \E n \in 1..Len(toks) : Follow(toks, toks[i].key, n) = toks[i].key

\* to_css_custom_properties: format!("--{}", key.replace('.', "-"))
CssName(key) == Chars("--") \o ReplaceDots(key)

----------------------------------------------------------------------------
(* C1..C6 *)

\* C1 (alias transparency): when resolve succeeds, every token whose value
\* is Alias(b) is stored with the value stored under b.
AliasTransparency ==
  Succeeded =>
    \A i \in 1..Len(tokens) :
      tokens[i].val.value.kind = "Alias" =>
        /\ ContainsKey(result.val, tokens[i].key)
        /\ ContainsKey(result.val, tokens[i].val.value.path)
        /\ Get(result.val, tokens[i].key).value
             = Get(result.val, tokens[i].val.value.path).value

\* one literal target with an alias before it in the source set (the target
\* is reached first as an alias target) and an alias after it (cache hit)
AliasTransparencyWitness ==
  /\ Succeeded
  /\ \E i, j, k \in 1..Len(tokens) :
       /\ i < j /\ j < k
       /\ tokens[i].val.value = Alias(tokens[j].key)
       /\ tokens[k].val.value = Alias(tokens[j].key)
       /\ tokens[j].val.value.kind = "String"

\* C2 as claimed (cycle detection): a source set whose alias targets all
\* exist and that has an alias cycle ends in CycleDetected.
CycleAlwaysCycleDetected ==
  (Done /\ AllAliasTargetsExist(tokens) /\ HasAliasCycle(tokens)) =>
    (result.kind = "Err" /\ result.err.kind = "CycleDetected")

\* C2 amended: such a set never resolves; the error is CycleDetected when,
\* besides, every Reference target exists and the set holds no Transform.
CycleDetection ==
  (Done /\ AllAliasTargetsExist(tokens) /\ HasAliasCycle(tokens)) =>
    /\ result.kind = "Err"
    /\ (AllReferenceTargetsExist(tokens) /\ HoldsNo(tokens, {"Transform"}))
         => result.err.kind = "CycleDetected"

\* a two-cycle that is not the first entry of the set was detected
CycleDetectionWitness ==
  /\ Failed
  /\ result.err.kind = "CycleDetected"
  /\ AllAliasTargetsExist(tokens)
  /\ \E i, j \in 2..Len(tokens) :
       /\ i # j
       /\ tokens[i].val.value = Alias(tokens[j].key)
       /\ tokens[j].val.value = Alias(tokens[i].key)

\* the walk is at an Alias, a Reference or an alias step that names p
ReachesPath(p) ==
  /\ pc = "walk"
  /\ \/ ret.op = "call" /\ ret.val.kind \in {"Alias", "Reference"} /\ ret.val.path = p
     \/ /\ ret.op = "step"
        /\ Top.pos <= Len(Top.steps)
        /\ Top.steps[Top.pos].type = Chars("alias")
        /\ AliasStepTarget(Top.steps[Top.pos]) = Some(p)

\* C3 (missing target): when the walk meets an Alias, Reference or alias
\* step whose path is not a key of the source set, the call fails with
\* TokenNotFound("<path> (referenced by <token being resolved>)"), the
\* token being resolved being the innermost entry of the stack, and
\* resolve returns that error.
MissingTarget ==
  [][ /\ \A p \in {Missing} \cup KeySet(tokens) :
           (ReachesPath(p) /\ ~ContainsKey(tokens, p)) =>
             /\ ret' = Fail(TokenNotFound(p \o Chars(" (referenced by ") \o Last(stack) \o Chars(")")))
             /\ StrContains(ret'.err.msg, p)
             /\ StrContains(ret'.err.msg, Last(stack))
      /\ (pc = "walk" /\ ret.op = "err" /\ ret.err.kind = "TokenNotFound") =>
           (pc' = "done" /\ result' = Err(ret.err))
    ]_vars

\* resolve failed on a missing path met one alias hop below the top-level
\* entry: the referrer named is the target of that hop
MissingTargetWitness ==
  /\ Failed
  /\ result.err.kind = "TokenNotFound"
  /\ Len(stack) = 2
  /\ result.err.msg = Missing \o Chars(" (referenced by ") \o stack[2] \o Chars(")")

AllOrNothing ==
  [][ /\ (pc = "walk" /\ ret.op = "err") =>
           /\ pc' = "done"
           /\ result'.kind = "Err"
           /\ result'.err.kind = ret.err.kind
           /\ StrContains(result'.err.msg, ret.err.msg)
           /\ UNCHANGED <<resolved, idx>>
      /\ Failed => UNCHANGED vars
      /\ (pc' = "done" /\ result'.kind = "Ok") =>
           /\ pc = "loop"
           /\ KeySet(result'.val) = KeySet(tokens)
    ]_vars

\* resolve failed with tokens already memoized and entries not yet visited
AllOrNothingWitness ==
  /\ Failed
  /\ Len(resolved) >= 2
  /\ idx < Len(tokens)

\* C6 (termination): the stack never holds more entries than the source set
\* has keys, and every call of resolve returns.
Termination ==
  /\ [](Len(stack) <= Cardinality(KeySet(tokens)))
  /\ (pc \in {"loop", "walk"}) ~> (pc = "done")

\* the stack holds every key of a source set of three tokens
TerminationWitness ==
  /\ pc = "walk"
  /\ Len(stack) = 3
  /\ Cardinality(KeySet(tokens)) = 3

----------------------------------------------------------------------------
(* C7..C10 *)

\* C7 (merge precedence): merge(base, overrides) holds each key of base and
\* of overrides once; a key of overrides carries the overrides token, any
\* other key the base token; the keys of base come first in base order,
\* then the keys only in overrides, in overrides order.
MergePrecedence ==
  pc = "merged" =>
    /\ KeySet(merged) = KeySet(base) \cup KeySet(overrides)
    /\ Len(merged) = Cardinality(KeySet(merged))
    /\ \A k \in KeySet(merged) :
         Get(merged, k) = IF ContainsKey(overrides, k) THEN Get(overrides, k)
                          ELSE Get(base, k)
    /\ Keys(merged)
         = Keys(base) \o SelectSeq(Keys(overrides), LAMBDA k : ~ContainsKey(base, k))

\* the first of two base keys is overridden with another token and a new
\* key comes with it
MergePrecedenceWitness ==
  /\ pc = "merged"
  /\ Len(base) = 2
  /\ Len(overrides) = 2
  /\ ContainsKey(overrides, base[1].key)
  /\ Get(overrides, base[1].key) # base[1].val
  /\ ~ContainsKey(overrides, base[2].key)
  /\ Len(merged) = 3

IsAliasStep(step, t) ==
  step.type = Chars("alias") /\ AliasStepTarget(step) = Some(t)

IsNumberStep(step, type) ==
  step.type = Chars(type) /\ ArgIs(step, "Number")

\* C8 (transform arithmetic): when resolve succeeds, a token
\* Transform([alias(t), multiply(k)]) whose t is stored as Dimension{v, u}
\* is stored as Dimension{v * k, u}, and a t that is a Dimension in the
\* source set is stored with that very value.
TransformArithmetic ==
  Succeeded =>
    \A i \in 1..Len(tokens) : \A t \in KeySet(tokens) :
      LET val == tokens[i].val.value
          rt == Get(result.val, t).value
          r == Get(result.val, tokens[i].key).value
      IN  ( /\ val.kind = "Transform"
            /\ Len(val.steps) = 2
            /\ IsAliasStep(val.steps[1], t)
            /\ IsNumberStep(val.steps[2], "multiply")
            /\ rt.kind = "Dimension" ) =>
            LET k == val.steps[2].args[1].n
            IN  /\ r.kind = "Dimension"
                /\ r.unit = rt.unit
                /\ r.value[1] * rt.value[2] * k[2] = rt.value[1] * k[1] * r.value[2]
                /\ Get(tokens, t).value.kind = "Dimension" => rt = Get(tokens, t).value

\* 4px times 2 resolved to 8px
TransformArithmeticWitness ==
  /\ Succeeded
  /\ \E i, j \in 1..Len(tokens) :
       /\ tokens[j].val.value = Dimension(Whole(4), Chars("px"))
       /\ tokens[i].val.value.kind = "Transform"
       /\ Len(tokens[i].val.value.steps) = 2
       /\ IsAliasStep(tokens[i].val.value.steps[1], tokens[j].key)
       /\ IsNumberStep(tokens[i].val.value.steps[2], "multiply")
       /\ Get(result.val, tokens[i].key).value = Dimension(Whole(8), Chars("px"))

IsDivideByZero(step) ==
  IsNumberStep(step, "divide") /\ step.args[1].n[1] = 0

HasDivideByZero(toks) ==
  \E i \in 1..Len(toks) : \E tr \in TransformsOf(toks[i].val.value) :
    \E j \in 1..Len(tr.steps) : IsDivideByZero(tr.steps[j])

\* C9 as claimed (divide by zero): a source set with a divide(0) step in
\* one of its pipelines ends in TransformFailed.
DivideByZeroAlwaysTransformFailed ==
  (Done /\ HasDivideByZero(tokens)) =>
    (result.kind = "Err" /\ result.err.kind = "TransformFailed")

\* C9 amended: a divide(0) step that is run fails with TransformFailed
\* whatever its input is, and a source set with a divide(0) step in one of
\* its pipelines never resolves (it fails with the error met first).
DivideByZero ==
  [][ /\ ( /\ pc = "walk"
           /\ ret.op = "step"
           /\ Top.pos <= Len(Top.steps)
           /\ IsDivideByZero(Top.steps[Top.pos]) ) =>
           /\ ret'.op = "err"
           /\ ret'.err.kind = "TransformFailed"
      /\ (pc' = "done" /\ HasDivideByZero(tokens)) => result'.kind = "Err"
    ]_vars

\* divide(0) was run on the Dimension that an alias step fetched
DivideByZeroWitness ==
  /\ Failed
  /\ result.err = TransformFailed(Chars("divide by zero"))
  /\ \E i, j \in 1..Len(tokens) :
       /\ tokens[j].val.value.kind = "Dimension"
       /\ tokens[i].val.value.kind = "Transform"
       /\ Len(tokens[i].val.value.steps) = 2
       /\ IsAliasStep(tokens[i].val.value.steps[1], tokens[j].key)
       /\ IsDivideByZero(tokens[i].val.value.steps[2])

NamesAreKeys(toks) == \A i \in 1..Len(toks) : toks[i].val.name = toks[i].key

\* C10 as claimed (idempotence): a source set that holds no Alias and no
\* Transform at any depth resolves to itself.
FullyResolvedUnchanged ==
  (Done /\ HoldsNo(tokens, {"Alias", "Transform"})) => result = Ok(tokens)

\* C10 amended: a source set that holds no Alias, no Transform and no
\* Reference at any depth and whose tokens are named by their keys resolves
\* to itself; the set returned by resolve resolves to itself.
Idempotence ==
  /\ ( /\ Done
       /\ HoldsNo(tokens, {"Alias", "Transform", "Reference"})
       /\ NamesAreKeys(tokens) ) => result = Ok(tokens)
  /\ (Done /\ pass = 2) => result = Ok(tokens)

\* the result of resolve, with a comment and an Object in it, was resolved
\* again
IdempotenceWitness ==
  /\ Done
  /\ pass = 2
  /\ Len(tokens) = 2
  /\ \E i \in 1..Len(tokens) : tokens[i].val.value.kind = "Object" /\ tokens[i].val.value.members # <<>>

----------------------------------------------------------------------------
(* C11..C20 *)

\* C11 (order independence): a source set resolved again with its entries
\* in another insertion order succeeds if and only if it succeeded in the
\* first order, and then every key carries the same value and the same
\* comment in both results.
OrderIndependence ==
  (Done /\ first # Idle) =>
    /\ result.kind = first.kind
    /\ result.kind = "Ok" =>
         /\ KeySet(result.val) = KeySet(first.val)
         /\ \A k \in KeySet(tokens) :
              /\ Get(result.val, k).value = Get(first.val, k).value
              /\ Get(result.val, k).comment = Get(first.val, k).comment

\* both orders resolved, the keys came out in different orders, and a
\* commented target was met as an alias target in one order and as a
\* top-level entry in the other
OrderIndependenceWitness ==
  /\ Done
  /\ first # Idle
  /\ result.kind = "Ok"
  /\ first.kind = "Ok"
  /\ Len(tokens) = 3
  /\ Keys(result.val) # Keys(first.val)
  /\ tokens[1].val.value.kind = "String"
  /\ tokens[1].val.comment # None
  /\ tokens[1].key # KeyList[1]
  /\ Get(tokens, KeyList[1]).value = Alias(tokens[1].key)

\* C12 (fully resolved output): no value stored in the output set, during
\* the walk or in the set returned, is an Alias or a Transform or holds one
\* at any depth of Object nesting.
FullyResolvedOutput ==
  /\ HoldsNo(resolved, {"Alias", "Transform"})
  /\ Succeeded => HoldsNo(result.val, {"Alias", "Transform"})

\* a set with a pipeline and with an alias two Objects deep was resolved
FullyResolvedOutputWitness ==
  /\ Succeeded
  /\ \E i, j \in 1..Len(tokens) :
       /\ tokens[i].val.value.kind = "Transform"
       /\ tokens[j].val.value.kind = "Object"
       /\ \E m \in 1..Len(tokens[j].val.value.members) :
            LET inner == tokens[j].val.value.members[m].val
            IN  /\ inner.kind = "Object"
                /\ HoldsKind(inner, {"Alias"})

\* C13 (identifier idempotence): the identifier built from an identifier,
\* with the same options, is that identifier; a path that starts with the
\* marker -- gives an identifier with one marker.
IdentifierIdempotence ==
  /\ pc = "key again" => cssKey = keyPath
  /\ (pc = "key" /\ StartsWith(keyPath, <<"-", "-">>)) =>
       /\ StartsWith(cssKey, <<"-", "-">>)
       /\ ~StartsWith(cssKey, <<"-", "-", "-">>)

\* the text 'selector { --name: value; ... }' around the entries of a map
RECURSIVE Declarations(_)
Declarations(map) ==
  IF map = <<>> THEN <<>>
  ELSE LET last == map[Len(map)]
       IN  Declarations(Pop(map))
             \o <<" ", " ">> \o last.key \o <<":", " ">> \o last.val \o <<";", "\n">>

\* C14 (the stylesheet wraps the flattened map): the text of
\* to_css_stylesheet is the selector, an opening brace, one declaration
\* '--name: value;' per entry of the map of to_css_custom_properties, in
\* the order of the map, and the closing brace.
StylesheetWrapsFlattenedMap ==
  pc = "projected" =>
    sheet = selector \o <<" ", "{", "\n">> \o Declarations(flat) \o <<"}">>

Contains(s, sub) ==
  \E i \in 1..(Len(s) - Len(sub) + 1) : SubSeq(s, i, i + Len(sub) - 1) = sub

HasUnknownStep(toks) ==
  \E i \in 1..Len(toks) : \E tr \in TransformsOf(toks[i].val.value) :
    \E j \in 1..Len(tr.steps) : tr.steps[j].type \notin Builtins

RECURSIVE RunSteps(_, _, _)
RunSteps(steps, n, out) ==
  IF n = 0 THEN None
  ELSE LET step == steps[n]
       IN  IF step.type = Chars("alias")
           THEN Some(Get(out, AliasStepTarget(step)[1]).value)
           ELSE Some(ApplyPureStep(RunSteps(steps, n - 1, out), step).val)

PipelineValue(steps, out) ==
  LET current == RunSteps(steps, Len(steps), out)
  IN  IF current = None THEN Null ELSE current[1]

\* every top-level pipeline of a resolved set has the value of its last step
PipelinesEvaluated ==
  Succeeded =>
    \A i \in 1..Len(tokens) :
      tokens[i].val.value.kind = "Transform" =>
        Get(result.val, tokens[i].key).value
          = PipelineValue(tokens[i].val.value.steps, result.val)

\* C16 (pipeline evaluation): a pipeline starts at its first step with no
\* input; a step's output becomes the input of the step after it, and no
\* other step is taken; the pipeline returns the output of its last step,
\* Null when it has no steps; after a failing step nothing runs but the
\* return of the error; and the value of a pipeline token in the resolved
\* set is the output of its last step.
PipelineEvaluation ==
  [][ /\ (pc = "walk" /\ ret.op = "call" /\ ret.val.kind = "Transform") =>
           /\ frames' = Append(frames, PipelineFrame(ret.name, ret.val.steps, 1, None))
           /\ ret'.op = "step"
      /\ (pc = "walk" /\ ret.op = "ret" /\ frames # <<>> /\ Top.kind = "pipeline") =>
           /\ Len(frames') = Len(frames)
           /\ frames'[Len(frames)].steps = Top.steps
           /\ frames'[Len(frames)].pos = Top.pos + 1
           /\ frames'[Len(frames)].current = Some(ret.val)
      /\ (pc = "walk" /\ ret.op = "step" /\ Top.pos > Len(Top.steps)) =>
           /\ ret' = Return(IF Top.steps = <<>> THEN Null ELSE Top.current[1])
           /\ frames' = Pop(frames)
      /\ (pc = "walk" /\ ret.op = "step" /\ Top.pos = 1) => Top.current = None
      /\ (pc = "walk" /\ ret.op = "err") => (pc' = "done" /\ result'.kind = "Err")
      /\ PipelinesEvaluated'
    ]_vars

\* [alias(a), multiply(2)] over the Number 3 resolved to the Number 6
PipelineEvaluationWitness ==
  /\ Succeeded
  /\ \E i, j \in 1..Len(tokens) :
       /\ tokens[j].val.value = Number(Whole(3))
       /\ tokens[i].val.value.kind = "Transform"
       /\ Len(tokens[i].val.value.steps) = 2
       /\ IsAliasStep(tokens[i].val.value.steps[1], tokens[j].key)
       /\ tokens[i].val.value.steps[2].type = Chars("multiply")
       /\ Get(result.val, tokens[i].key).value = Number(Whole(6))

\* C17 (unit rule of add and subtract): on a Dimension input, a Number or
\* a Dimension of the same unit gives the Dimension of the sum or the
\* difference with the input's unit; a Dimension of another unit gives
\* TransformFailed; and a result that is a Dimension has the unit of the
\* input, which is a Dimension.
UnitRule ==
  (pc = "stepped" /\ stepCalled.type \in {Chars("add"), Chars("subtract")}) =>
    LET arg == stepCalled.args[1]
        plus == stepCalled.type = Chars("add")
    IN  /\ ( /\ stepInput # None
             /\ stepInput[1].kind = "Dimension"
             /\ stepCalled.args # <<>>
             /\ arg.kind \in {"Number", "Dimension"} ) =>
             LET in == stepInput[1]
             IN  IF arg.kind = "Dimension" /\ arg.unit # in.unit
                 THEN /\ stepOutput.kind = "Err"
                      /\ stepOutput.err.kind = "TransformFailed"
                 ELSE stepOutput =
                        Ok(Dimension(IF plus THEN RAdd(in.value, ArgAmount(arg))
                                     ELSE RSub(in.value, ArgAmount(arg)),
                                     in.unit))
        /\ (stepOutput.kind = "Ok" /\ stepOutput.val.kind = "Dimension") =>
             /\ stepInput # None
             /\ stepInput[1].kind = "Dimension"
             /\ stepInput[1].unit = stepOutput.val.unit

\* 4px plus 2px gave 6px
UnitRuleWitness ==
  /\ pc = "stepped"
  /\ stepCalled = TransformStep(Chars("add"), <<Dimension(Whole(2), Chars("px"))>>)
  /\ stepInput = Some(Dimension(Whole(4), Chars("px")))
  /\ stepOutput = Ok(Dimension(Whole(6), Chars("px")))

\* an identifier was built with lowercase on
MadeLowercase == pc \in {"key", "key again"} /\ keyOpts.lowercase

AlnumOnly(s) == SelectSeq(s, IsAsciiAlphanumeric)

\* the positions of the alphanumeric characters of s
AlnumPositions(s) ==
  SelectSeq([i \in 1..Len(s) |-> i], LAMBDA i : IsAsciiAlphanumeric(s[i]))

Lowered(s) == [i \in 1..Len(s) |-> ToAsciiLowercase(s[i])]

GivenPrefix == IF keyOpts.prefix = None THEN <<>> ELSE keyOpts.prefix[1]

\* the marker, then lowercase letters and digits joined by single
\* separators, none first and none last
IdentifierShape(o, sep) ==
  /\ StartsWith(o, <<"-", "-">>)
  /\ LET b == SubSeq(o, 3, Len(o))
     IN  \A i \in 1..Len(b) :
           /\ b[i] = sep \/ InSeq(b[i], AsciiLower) \/ IsAsciiDigit(b[i])
           /\ b[i] = sep => (i > 1 /\ i < Len(b) /\ b[i + 1] # sep)

\* the letters and digits of the prefix and of the path are kept, in
\* order and lowered, the prefix first
AlnumKept ==
  AlnumOnly(cssKey) = Lowered(AlnumOnly(GivenPrefix) \o AlnumOnly(keyPath))

\* two letters or digits of the path that follow each other, with other
\* characters between them or as a lower-case letter or digit before an
\* upper-case letter, are one separator apart in the identifier; so are
\* the last one of the prefix and the first one of the path
Delimited ==
  LET pin == AlnumPositions(keyPath)
      pout == AlnumPositions(cssKey)
      off == Len(AlnumOnly(GivenPrefix))
  IN  /\ \A k \in 1..(Len(pin) - 1) :
           ( \/ pin[k + 1] > pin[k] + 1
             \/ /\ ~IsAsciiUppercase(keyPath[pin[k]])
                /\ IsAsciiUppercase(keyPath[pin[k + 1]]) ) =>
             pout[off + k + 1] = pout[off + k] + 2
      /\ (off > 0 /\ Len(pin) > 0) => pout[off + 1] = pout[off] + 2

\* C18 as claimed (output-identifier shape): with lowercase on, the
\* identifier has the shape, keeps the letters and digits with the prefix
\* first, has a separator at every delimiter and camelCase boundary, and
\* is exactly '--' for a path with no alphanumeric character.
IdentifierShapeBareMarker ==
  MadeLowercase =>
    /\ IdentifierShape(cssKey, keyOpts.separator)
    /\ AlnumKept
    /\ Delimited
    /\ AlnumOnly(keyPath) = <<>> => cssKey = <<"-", "-">>

\* C18 amended: as claimed, but a path with no alphanumeric character gives
\* the marker followed by the normalized prefix, which is exactly '--'
\* only when no prefix is given or the prefix normalizes to nothing.
IdentifierShapeHolds ==
  MadeLowercase =>
    /\ IdentifierShape(cssKey, keyOpts.separator)
    /\ AlnumKept
    /\ Delimited
    /\ AlnumOnly(keyPath) = <<>> =>
         cssKey = <<"-", "-">> \o NormalizeToken(GivenPrefix, keyOpts.separator, TRUE)

\* 'aB/1' under the prefix 'P q' and the separator '_' gave --p_q_a_b_1
IdentifierShapeWitness ==
  /\ pc = "key"
  /\ keyOpts = CssKeyOptions(Some(Chars("P q")), "_", TRUE)
  /\ keyPath = Chars("aB/1")
  /\ cssKey = Chars("--p_q_a_b_1")

\* the paths that the chain of Alias values from k reaches after m, m + 1,
\* ..., n steps, joined by ' -> '
RECURSIVE ChainText(_, _, _, _)
ChainText(toks, k, m, n) ==
  IF n = m THEN Follow(toks, k, m)
  ELSE ChainText(toks, k, m, n - 1) \o Chars(" -> ") \o Follow(toks, k, n)

\* C19 (cycle chain in the error): when resolve_tokens fails with
\* CycleDetected on an entry whose chain of Alias values comes back, after n
\* steps, to the path it had reached after m steps, the text of the error
\* contains the paths of the cycle in that order, ending with the repeated
\* path.
CycleChainInError ==
  (Failed /\ result.err.kind = "CycleDetected") =>
    \A n \in 1..Len(tokens) : \A m \in 0..(n - 1) :
      ( /\ Follow(tokens, tokens[idx].key, n) # Missing
        /\ Follow(tokens, tokens[idx].key, n) = Follow(tokens, tokens[idx].key, m)
        /\ \A j \in 0..(n - 1) : \A i \in 0..(j - 1) :
             Follow(tokens, tokens[idx].key, j) # Follow(tokens, tokens[idx].key, i) ) =>
        Contains(result.err.msg, ChainText(tokens, tokens[idx].key, m, n))

\* C20 (comment inheritance): in a resolved set every token that has a
\* comment in the source set has that comment, and a token whose value is
\* Alias(t) and that has no comment has the comment of the resolved
\* token t.
CommentInheritance ==
  Succeeded =>
    \A i \in 1..Len(tokens) :
      LET token == tokens[i].val
          out == Get(result.val, tokens[i].key)
      IN  /\ token.comment # None => out.comment = token.comment
          /\ (token.comment = None /\ token.value.kind = "Alias") =>
               out.comment = Get(result.val, token.value.path).comment

\* the part of C20 that the resolver keeps: the source comment of every
\* token, present or absent, is the comment of the resolved token
OwnCommentKept ==
  Succeeded =>
    \A i \in 1..Len(tokens) :
      Get(result.val, tokens[i].key).comment = tokens[i].val.comment

\* the path that the running step asks resolve_alias for, if any: the
\* Alias value entered or the alias step that is next in the pipeline
AliasRequests ==
  IF pc = "walk" /\ ret.op = "call" /\ ret.val.kind = "Alias" THEN {ret.val.path}
  ELSE IF /\ pc = "walk"
          /\ ret.op = "step"
          /\ Top.pos <= Len(Top.steps)
          /\ Top.steps[Top.pos].type = Chars("alias")
          /\ AliasStepTarget(Top.steps[Top.pos]) # None
       THEN {AliasStepTarget(Top.steps[Top.pos])[1]}
       ELSE {}

\* the paths whose walk is under way are distinct and not yet stored
WalksUnderWay ==
  pc = "walk" =>
    /\ \A i, j \in 1..Len(stack) : stack[i] = stack[j] => i = j
    /\ \A i \in 1..Len(stack) : ~ContainsKey(resolved, stack[i])

\* C21 (memoization): the walk of a token's value starts, from the loop or
\* from resolve_alias, only when the token is neither stored nor under
\* way; a walk that ends well stores the token, and a stored key stays
\* stored until the call returns; so no value is walked twice.  An Alias
\* or alias step that names a stored path returns the stored value and
\* nothing else changes; the loop passes over a stored key.
Memoization ==
  [][ /\ (pc = "loop" /\ pc' = "walk") =>
           /\ ~ContainsKey(resolved, tokens[idx].key)
           /\ frames = <<>>
           /\ stack' = <<tokens[idx].key>>
      /\ (pc = "walk" /\ Len(stack') = Len(stack) + 1) =>
           /\ ~ContainsKey(resolved, Last(stack'))
           /\ ~StackContains(stack, Last(stack'))
           /\ ret' = Call(Last(stack'), Get(tokens, Last(stack')).value)
      /\ (pc = "walk" /\ pc' # "done" /\ Len(stack') = Len(stack) - 1) =>
           ContainsKey(resolved', Last(stack))
      /\ (pc \in {"loop", "walk"}) => KeySet(resolved) \subseteq KeySet(resolved')
      /\ WalksUnderWay'
      /\ \A t \in AliasRequests :
           ContainsKey(resolved, t) =>
             /\ ret' = Return(Get(resolved, t).value)
             /\ UNCHANGED <<stack, frames, resolved>>
      /\ (pc = "loop" /\ idx <= Len(tokens) /\ ContainsKey(resolved, tokens[idx].key)) =>
           /\ pc' = "loop"
           /\ idx' = idx + 1
           /\ UNCHANGED <<stack, frames, ret, resolved>>
    ]_vars

\* two tokens alias a token that comes after them: the first walked it,
\* the second got the stored value, the loop passed over it
MemoizationWitness ==
  /\ Succeeded
  /\ Len(tokens) = 3
  /\ tokens[1].val.value = Alias(tokens[3].key)
  /\ tokens[2].val.value = Alias(tokens[3].key)

\* the paths reached from the paths ks in n hops along Alias values, Alias
\* members of Objects and alias steps
RECURSIVE Hops(_, _, _)
Hops(toks, ks, n) ==
  IF n = 0 THEN ks
  ELSE Hops(toks,
            UNION {AliasPaths(Get(toks, k).value) : k \in {x \in ks : ContainsKey(toks, x)}},
            n - 1)

\* the token at position i holds an Object with an Alias, at some depth,
\* that leads back to the token
ObjectOnCycle(toks, i) ==
  /\ toks[i].val.value.kind = "Object"
  /\ \E n \in 1..Len(toks) : toks[i].key \in Hops(toks, {toks[i].key}, n)

\* what the value v is in the resolved set out
RECURSIVE ValueIn(_, _)
ValueIn(out, v) ==
  CASE v.kind = "Alias" -> Get(out, v.path).value
    [] v.kind = "Reference" -> String(CssVarOf(v.path))
    [] v.kind = "Transform" -> PipelineValue(v.steps, out)
    [] v.kind = "Object" ->
         Object([i \in 1..Len(v.members) |->
                   [key |-> v.members[i].key, val |-> ValueIn(out, v.members[i].val)]])
    [] OTHER -> v

\* every Object of a resolved set has the keys of its source in their
\* order, each member resolved
ObjectsRebuilt ==
  Succeeded =>
    \A i \in 1..Len(tokens) :
      tokens[i].val.value.kind = "Object" =>
        Get(result.val, tokens[i].key).value = ValueIn(result.val, tokens[i].val.value)

\* a set with an Object on a cycle does not resolve; it fails with
\* CycleDetected when no other error can come first
ObjectCyclesFail ==
  (Done /\ \E i \in 1..Len(tokens) : ObjectOnCycle(tokens, i)) =>
    /\ result.kind = "Err"
    /\ ( /\ AllAliasTargetsExist(tokens)
         /\ AllReferenceTargetsExist(tokens)
         /\ HoldsNo(tokens, {"Transform"}) ) => result.err.kind = "CycleDetected"

\* C22 as claimed (Object resolution): a source set with an Object on a
\* cycle ends in CycleDetected.
ObjectCycleAlwaysCycleDetected ==
  (Done /\ \E i \in 1..Len(tokens) : ObjectOnCycle(tokens, i)) =>
    (result.kind = "Err" /\ result.err.kind = "CycleDetected")

\* C22 amended (Object resolution): the members of an Object are walked in order
\* under the name of the token that holds it, with the stack and the source
\* set as they are; the resolved Object has the same keys in the same
\* order, each with its member resolved; an Alias inside an Object, at any
\* depth, whose path is on the stack fails with CycleDetected, which is the
\* error of resolve_tokens; and a set with an Object on a cycle never
\* resolves (it fails with the error met first).
ObjectResolution ==
  [][ /\ (pc = "walk" /\ ret.op = "call" /\ ret.val.kind = "Object"
            /\ ret.val.members # <<>>) =>
           /\ ret' = Call(ret.name, ret.val.members[1].val)
           /\ UNCHANGED <<stack, tokens, resolved>>
      /\ (pc = "walk" /\ ret.op = "ret" /\ frames # <<>> /\ Top.kind = "object"
            /\ Top.pos < Len(Top.map)) =>
           /\ ret' = Call(Top.name, Top.map[Top.pos + 1].val)
           /\ UNCHANGED <<stack, tokens, resolved>>
      /\ \A t \in AliasRequests :
           ( /\ StackContains(stack, t)
             /\ \E i \in 1..Len(frames) : frames[i].kind = "object" ) =>
             ret' = Fail(CycleDetected(t))
      /\ (pc = "walk" /\ ret.op = "err" /\ ret.err.kind = "CycleDetected") =>
           /\ pc' = "done"
           /\ result'.kind = "Err"
           /\ result'.err.kind = "CycleDetected"
      /\ ObjectsRebuilt'
      /\ ObjectCyclesFail'
    ]_vars

\* the first token holds an Object whose member's member aliases the token:
\* CycleDetected
ObjectResolutionWitness ==
  /\ Failed
  /\ result.err.kind = "CycleDetected"
  /\ tokens[1].val.value =
       Object(<<Member("m", Object(<<Member("n", Alias(tokens[1].key))>>))>>)

\* the token set holds an Alias value, at some depth
HoldsAlias(toks) == \E i \in 1..Len(toks) : HoldsKind(toks[i].val.value, {"Alias"})

\* C23 (the alias step equals Alias): the call on the entries with
\* Transform([alias(t)]) in place of every Alias(t) ends as the call on the
\* entries themselves did: the same set or the same error (CycleDetected,
\* TokenNotFound, with the same text), and the same tokens stored in the
\* output set in the same order.
AliasStepEqualsAlias ==
  (Done /\ first # Idle) =>
    /\ result = first
    /\ resolved = firstResolved

\* both calls found the cycle of two tokens that name each other, the
\* second call through alias steps
AliasStepEqualsAliasWitness ==
  /\ Failed
  /\ first = result
  /\ result.err.kind = "CycleDetected"
  /\ Len(tokens) >= 2
  /\ tokens[1].val.value.kind = "Transform"
  /\ IsAliasStep(tokens[1].val.value.steps[1], tokens[2].key)
  /\ tokens[2].val.value.kind = "Transform"
  /\ IsAliasStep(tokens[2].val.value.steps[1], tokens[1].key)

\* C24 (Reference needs only existence): the step that resolves a
\* Reference returns at once, the var(...) String when the path is a key of
\* the source set, and leaves the stack, the suspended callers and the
\* output set as they are: nothing is pushed, walked or inserted.  A source
\* set without Alias and Transform values whose Reference targets all
\* exist resolves, whatever the References name.
ReferenceNeedsOnlyExistence ==
  [][ /\ (pc = "walk" /\ ret.op = "call" /\ ret.val.kind = "Reference") =>
           /\ UNCHANGED <<stack, frames, resolved>>
           /\ ret'.op \in {"ret", "err"}
           /\ ContainsKey(tokens, ret.val.path) =>
                ret' = Return(String(CssVarOf(ret.val.path)))
      /\ ( /\ pc' = "done"
           /\ AllReferenceTargetsExist(tokens)
           /\ HoldsNo(tokens, {"Alias", "Transform"}) ) => result'.kind = "Ok"
    ]_vars

\* two tokens that refer to each other resolved
ReferenceNeedsOnlyExistenceWitness ==
  /\ Succeeded
  /\ Len(tokens) = 2
  /\ tokens[1].val.value = Reference(tokens[2].key)
  /\ tokens[2].val.value = Reference(tokens[1].key)
  /\ Get(result.val, tokens[1].key).value = String(CssVarOf(tokens[2].key))

\* the identifier inside the String 'var(<identifier>)'
VarIdentifier(v) == SubSeq(v.s, 5, Len(v.s) - 1)

\* C25 (shared identifier): after a projection, for every token whose source
\* value is Reference(t), the identifier inside its var(...) String is a
\* name of the flattened map, and the stylesheet declares that identifier
\* with the value of t, whatever prefix the stylesheet was asked for.
SharedIdentifier ==
  pc = "projected" =>
    \A i \in 1..Len(tokens) :
      tokens[i].val.value.kind = "Reference" =>
        LET id == VarIdentifier(Get(result.val, tokens[i].key).value)
            t == tokens[i].val.value.path
        IN  /\ ContainsKey(flat, id)
            /\ Contains(sheet,
                        <<" ", " ">> \o id \o <<":", " ">>
                          \o TokenValueToString(Get(result.val, t).value)
                          \o <<";", "\n">>)

\* C26 (same keys out as in): a resolved set has the keys of the source
\* set and no others, each once, and the name field of every token of it is
\* the token's key.
SameKeysOutAsIn ==
  Succeeded =>
    /\ KeySet(result.val) = KeySet(tokens)
    /\ Len(result.val) = Len(tokens)
    /\ \A i, j \in 1..Len(result.val) : result.val[i].key = result.val[j].key => i = j
    /\ \A i \in 1..Len(result.val) : result.val[i].val.name = result.val[i].key

\* the second token, whose name field is not its key, was reached as the
\* alias target of the first and is in the set under its key
SameKeysOutAsInWitness ==
  /\ Succeeded
  /\ Len(tokens) = 2
  /\ tokens[1].val.value = Alias(tokens[2].key)
  /\ tokens[1].val.name # tokens[1].key
  /\ tokens[2].val.name # tokens[2].key
  /\ Get(result.val, tokens[2].key).name = tokens[2].key

\* the position of the key k in the map m
PositionOf(m, k) == CHOOSE i \in 1..Len(m) : m[i].key = k

\* some token names, in an Alias or an alias step at any depth, a token
\* that comes after it
AliasesLaterToken(toks) ==
  \E i, j \in 1..Len(toks) : i < j /\ toks[j].key \in AliasPaths(toks[i].val.value)

\* C27 as claimed (output order): the keys of a resolved set are in the
\* order of the source set.
OutputOrder ==
  Succeeded => Keys(result.val) = Keys(tokens)

\* C27 amended: in a resolved set every token comes after the tokens it
\* names in an Alias or an alias step; the keys are in the order of the
\* source set when no token names a later one.
OutputOrderTargetsFirst ==
  Succeeded =>
    /\ \A i \in 1..Len(tokens) :
         \A t \in AliasPaths(tokens[i].val.value) \ {tokens[i].key} :
           PositionOf(result.val, t) < PositionOf(result.val, tokens[i].key)
    /\ ~AliasesLaterToken(tokens) => Keys(result.val) = Keys(tokens)

\* the first token aliases the second, which is first in the resolved set
OutputOrderWitness ==
  /\ Succeeded
  /\ Len(tokens) = 3
  /\ tokens[1].val.value = Alias(tokens[2].key)
  /\ Keys(result.val) = <<tokens[2].key, tokens[1].key, tokens[3].key>>

\* no token leads back to itself along Alias values, Alias members of
\* Objects and alias steps
AliasGraphAcyclic(toks) ==
  \A i \in 1..Len(toks) : \A n \in 1..Len(toks) :
    toks[i].key \notin Hops(toks, {toks[i].key}, n)

\* C28 (no false cycle): a source set without Transform values in which
\* every Alias and Reference target exists and the Alias graph is acyclic
\* resolves.
NoFalseCycle ==
  ( /\ Done
    /\ HoldsNo(tokens, {"Transform"})
    /\ AllAliasTargetsExist(tokens)
    /\ AllReferenceTargetsExist(tokens)
    /\ AliasGraphAcyclic(tokens) ) => result.kind = "Ok"

\* a set resolved in which two members of one Object alias the same token,
\* which comes later in the source set
NoFalseCycleWitness ==
  /\ Succeeded
  /\ Len(tokens) = 2
  /\ tokens[1].val.value.kind = "Object"
  /\ Len(tokens[1].val.value.members) = 2
  /\ tokens[1].val.value.members[1].val = Alias(tokens[2].key)
  /\ tokens[1].val.value.members[2].val = Alias(tokens[2].key)

\* C29 (write-once output): while a call of resolve_tokens runs, a step
\* leaves the output set as it is or appends one token under a key of the
\* source set that the output set does not hold yet; the tokens stored
\* before stay as they are, in their places.
WriteOnceOutput ==
  [][ (pc \in {"loop", "walk"}) =>
        \/ resolved' = resolved
        \/ /\ Len(resolved') = Len(resolved) + 1
           /\ SubSeq(resolved', 1, Len(resolved)) = resolved
           /\ ~ContainsKey(resolved, Last(resolved').key)
           /\ ContainsKey(tokens, Last(resolved').key)
    ]_vars

\* the walk of the first token stored the second token and then the first;
\* the loop is about to pass over the second
WriteOnceOutputWitness ==
  /\ pc = "loop"
  /\ idx = 2
  /\ Len(tokens) = 3
  /\ Keys(resolved) = <<tokens[2].key, tokens[1].key>>

\* C30 (flattening loses no token): after a projection the flattened map
\* has one entry per token of the resolved set, in the order of the set,
\* each with the String of its token's value, and no two entries, hence no
\* two tokens, have the same name.
FlatteningLosesNoToken ==
  pc = "projected" =>
    /\ Len(flat) = Len(result.val)
    /\ \A i \in 1..Len(result.val) :
         /\ i <= Len(flat)
         /\ flat[i].val = TokenValueToString(result.val[i].val.value)
    /\ \A i, j \in 1..Len(result.val) :
         i # j => CssName(result.val[i].key) # CssName(result.val[j].key)

====
